---------------------------- MODULE Spec2Model ----------------------------
(***************************************************************************)
(* Model of the PVAutonomy Ops firmware OTA update subsystem:              *)
(*   - OperationLock / OperationTracker / OperationRunner (operations.py)  *)
(*   - the espota2 transport engine ota_upload (flash_uploader.py)         *)
(*                                                                         *)
(*   - the flash pipeline PVAutonomyOpsFlashButton._execute_flash and the  *)
(*     guards check_flash_guards (button.py, flash_guards.py, artifacts.py)*)
(*                                                                         *)
(* The specifications share the module's variables:                       *)
(*   Spec      button presses driven through OperationRunner.run           *)
(*   SpecLock  arbitrary direct OperationLock.acquire/release calls        *)
(*   SpecOta   one ota_upload invocation against an arbitrary device       *)
(*   SpecOtaTimed the same with the time the device takes to answer        *)
(*   SpecFlash successive _execute_flash invocations                       *)
(*   SpecStages the same with download_artifact entered                    *)
(*   SpecTracker arbitrary direct OperationTracker calls                   *)
(*   SpecPress presses of the flash button, with the gate status sensor    *)
(* The program runs on one asyncio event loop: code between two awaits     *)
(* that really suspend is one atomic step.                                 *)
(***************************************************************************)
EXTENDS Integers, Sequences, FiniteSets, TLC

VARIABLES
    lock,        \* OperationLock: locked (asyncio.Lock), current_operation, operation_started
    tracker,     \* OperationTracker fields
    events,      \* events fired on hass.bus by the tracker, in order
    clock,       \* datetime.now(), in milliseconds
    tasks,       \* one record per button-press task (OperationRunner.run invocation)
    holders,     \* history: names whose acquire returned True and that were not released since
    last_call,   \* history: the last direct OperationLock call and what it returned
    ota,         \* one ota_upload invocation: its locals, the stream, what was written and read
    flash,       \* _execute_flash: its locals, the stage events fired, the temp directories on disk
    press,       \* the flash button: async_press, its attributes, and the gate status sensor
    entry        \* the config entry: the objects each async_setup_entry built, the button entities

vars == <<lock, tracker, events, clock, tasks, holders, last_call, ota, flash, press,
          entry>>

\* Python's None for names and strings; Nothing / Some(x) for an optional
\* timestamp, record or exception.
None == "None"
Nothing == <<>>
Some(x) == <<x>>

----------------------------------------------------------------------------
(* Bounds *)

NumTasks == 2
MaxClock == 1

----------------------------------------------------------------------------
(* OperationLock *)

\* The operation names the four buttons pass to OperationRunner.run.
OperationNames == {"discover", "flash_firmware", "restart_device", "run_gates"}

LockInit == [locked |-> FALSE, current_operation |-> None, operation_started |-> Nothing]

\* last_call before any direct call was made.
NoCall ==
    [op |-> None, name |-> None, ret |-> FALSE, lock_before |-> LockInit]

\* Mutant: acquire that does not look at locked().
LockAcquireNoCheck(l, operation_name, now) ==
    [ret  |-> TRUE,
     lock |-> [locked |-> TRUE, current_operation |-> operation_name,
               operation_started |-> Some(now)]]

\* OperationLock.acquire.  asyncio.Lock.acquire() on an unlocked lock without
\* waiters takes the lock without suspending, so check and take are one step.
LockAcquire(l, operation_name, now) ==
    IF l.locked
    THEN [ret |-> FALSE, lock |-> l]
    ELSE [ret  |-> TRUE,
          lock |-> [locked |-> TRUE, current_operation |-> operation_name,
                    operation_started |-> Some(now)]]

\* Mutant: release that frees the lock whatever name is given.
LockReleaseAnyName(l, operation_name) ==
    [released |-> l.locked, lock |-> LockInit]

\* OperationLock.release: frees only when the name equals the current holder;
\* otherwise logs the mismatch and changes nothing.
LockRelease(l, operation_name) ==
    IF l.current_operation = operation_name
    THEN [released |-> TRUE, lock |-> LockInit]
    ELSE [released |-> FALSE, lock |-> l]

----------------------------------------------------------------------------
(* OperationTracker *)

OperationState == {"idle", "queued", "running", "success", "failed"}

TrackerInit ==
    [state |-> "idle", name |-> None, started |-> Nothing, finished |-> Nothing,
     progress |-> 0, last_error |-> None, last_error_time |-> Nothing,
     last_action |-> None, last_action_time |-> Nothing]

\* OperationTracker.start_operation, the field assignments (the event is
\* fired after them).
TrackerStart(tr, operation_name, now) ==
    [tr EXCEPT !.state = "running", !.name = operation_name, !.started = Some(now),
               !.finished = Nothing, !.progress = 0]

\* OperationTracker.duration_ms
TrackerDuration(tr, now) ==
    IF tr.started = Nothing THEN Nothing
    ELSE (IF tr.finished = Nothing THEN now ELSE tr.finished[1]) - tr.started[1]

\* Variant: a successful completion clears the recorded error.
TrackerCompleteClearsError(tr, success, error, now) ==
    [tr EXCEPT !.state = IF success THEN "success" ELSE "failed",
               !.finished = Some(now),
               !.progress = IF success THEN 100 ELSE tr.progress,
               !.last_action = tr.name,
               !.last_action_time = Some(now),
               !.last_error = error,
               !.last_error_time = IF success THEN Nothing ELSE Some(now)]

\* OperationTracker.complete_operation, the field assignments.
TrackerComplete(tr, success, error, now) ==
    [tr EXCEPT !.state = IF success THEN "success" ELSE "failed",
               !.finished = Some(now),
               !.progress = IF success THEN 100 ELSE tr.progress,
               !.last_action = tr.name,
               !.last_action_time = Some(now),
               !.last_error = IF success THEN tr.last_error ELSE error,
               !.last_error_time = IF success THEN tr.last_error_time ELSE Some(now)]

\* OperationTracker.to_dict: the attributes the status sensor exports
\* (times stay what they are; isoformat is not modelled).
TrackerToDict(tr, now) ==
    [op_state |-> tr.state, op_name |-> tr.name, op_started |-> tr.started,
     op_finished |-> tr.finished, op_progress |-> tr.progress,
     op_duration_ms |-> TrackerDuration(tr, now),
     last_action |-> tr.last_action, last_action_time |-> tr.last_action_time,
     last_error |-> tr.last_error, last_error_time |-> tr.last_error_time]

\* Variant: update_progress that stores the value as given.
TrackerUpdateProgressUnclamped(tr, progress) ==
    [tr EXCEPT !.progress = progress]

\* OperationTracker.update_progress: max(0, min(100, progress)).
TrackerUpdateProgress(tr, progress) ==
    LET lower == IF 100 < progress THEN 100 ELSE progress
        upper == IF 0 > lower THEN 0 ELSE lower
    IN [tr EXCEPT !.progress = upper]

\* OperationTracker.reset
TrackerReset(tr) ==
    [tr EXCEPT !.state = "idle", !.name = None, !.started = Nothing,
               !.finished = Nothing, !.progress = 0]

ProgressEvent(progress, message) ==
    [type |-> "pvautonomy_ops_operation_progress", progress |-> progress,
     message |-> message]

StartedEvent(operation_name, now) ==
    [type |-> "pvautonomy_ops_operation_started", operation |-> operation_name,
     success |-> None, error |-> None]

CompletedEvent(tr, success, error) ==
    [type |-> "pvautonomy_ops_operation_completed", operation |-> tr.name,
     success |-> success, error |-> error]


----------------------------------------------------------------------------
(* OperationRunner *)

\* Exceptions are a Python type name, its str() and whether the type derives
\* from Exception (caught by "except Exception") or only from BaseException.
OTAErrorExc == [type |-> "OTAError", msg |-> "Network error during OTA upload",
                base |-> "Exception"]
CancelledExc == [type |-> "CancelledError", msg |-> "", base |-> "BaseException"]
BusExc == [type |-> "HomeAssistantError", msg |-> "event bus", base |-> "Exception"]

\* What an operation closure can raise: an ordinary error, or the
\* cancellation of the task awaiting it.
OpExceptions == {OTAErrorExc, CancelledExc}

\* error_msg = f"{type(ex).__name__}: {str(ex)}"
FormatError(ex) == ex.type \o ": " \o ex.msg

\* "except Exception as ex": which raised exceptions the handler catches.
Catches(ex) == ex.base = "Exception"

BlockedRecord(l) ==
    [success |-> FALSE, result |-> None,
     error |-> "Operation blocked: " \o l.current_operation \o " already running",
     duration_ms |-> 0]

\* Mutant: the blocked return placed inside the try, so that finally runs.
BlockedExitReleases(l, operation_name) == LockRelease(l, operation_name).lock

\* The lock after run's blocked return: the return precedes the try block,
\* so the finally clause does not run.
BlockedExit(l, operation_name) == l

\* Mutant: release only on the paths that return.
FinallyReleaseOnReturnOnly(l, operation_name, exit) ==
    IF exit = "raised" THEN l ELSE LockRelease(l, operation_name).lock

\* "finally: self.lock.release(operation_name)": runs on every exit of the
\* try block, returning or raising.
FinallyRelease(l, operation_name, exit) == LockRelease(l, operation_name).lock

TaskInit ==
    [pc |-> "idle", name |-> None, acquired |-> FALSE, op_called |-> FALSE,
     op_exc |-> Nothing, tracker_raised |-> FALSE, exit |-> "none",
     record |-> Nothing, exc |-> Nothing, conn |-> FALSE]

\* The except clause of run for exception ex raised in the try block with
\* tracker tr: what run does, up to the finally clause.
\* fire_raises: hass.bus.async_fire raises inside complete_operation.
ExceptClause(tr, ex, fire_raises, now) ==
    IF Catches(ex)
    THEN LET error_msg == FormatError(ex)
             tr2 == TrackerComplete(tr, FALSE, error_msg, now)
         IN IF fire_raises
            THEN [tracker |-> tr2, fired |-> <<>>, exit |-> "raised",
                  record |-> Nothing, exc |-> Some(BusExc), tracker_raised |-> TRUE]
            ELSE [tracker |-> tr2,
                  fired |-> <<CompletedEvent(tr2, FALSE, error_msg)>>,
                  exit |-> "returned",
                  record |-> Some([success |-> FALSE, result |-> None,
                                   error |-> error_msg,
                                   duration_ms |-> TrackerDuration(tr2, now)]),
                  exc |-> Nothing, tracker_raised |-> FALSE]
    ELSE [tracker |-> tr, fired |-> <<>>, exit |-> "raised",
          record |-> Nothing, exc |-> Some(ex), tracker_raised |-> FALSE]

\* A task leaves run through the except clause and the finally clause.
LeaveByException(t, tr, ex, fire_raises, raised_by_tracker) ==
    LET h == ExceptClause(tr, ex, fire_raises, clock)
    IN /\ tracker' = h.tracker
       /\ events' = events \o h.fired
       /\ lock' = FinallyRelease(lock, tasks[t].name, h.exit)
       /\ tasks' = [tasks EXCEPT ![t].pc = "done",
                                 ![t].exit = h.exit,
                                 ![t].record = h.record,
                                 ![t].exc = h.exc,
                                 ![t].conn = FALSE,
                                 ![t].tracker_raised = raised_by_tracker \/ h.tracker_raised]

\* A button press: async_press calls OperationRunner.run(name, closure).
\* One step up to the first suspension inside the closure.
\*   start_raises: async_fire raises inside start_operation
\*   fail_raises:  async_fire raises inside complete_operation(False)
RunCall(t, operation_name, start_raises, fail_raises) ==
    /\ tasks[t].pc = "idle"
    /\ \A u \in 1..(t - 1) : tasks[u].pc # "idle"
    /\ UNCHANGED <<clock, holders, last_call, ota, flash, press, entry>>
    /\ LET a == LockAcquire(lock, operation_name, clock)
       IN IF ~a.ret
          THEN /\ lock' = BlockedExit(lock, operation_name)
               /\ tasks' = [tasks EXCEPT ![t].pc = "done",
                                         ![t].name = operation_name,
                                         ![t].exit = "returned",
                                         ![t].record = Some(BlockedRecord(lock))]
               /\ UNCHANGED <<tracker, events>>
          ELSE LET tr1 == TrackerStart(tracker, operation_name, clock)
               IN IF start_raises
                  THEN LET h == ExceptClause(tr1, BusExc, fail_raises, clock)
                       IN /\ tracker' = h.tracker
                          /\ events' = events \o h.fired
                          /\ lock' = FinallyRelease(a.lock, operation_name, h.exit)
                          /\ tasks' = [tasks EXCEPT ![t].pc = "done",
                                                    ![t].name = operation_name,
                                                    ![t].acquired = TRUE,
                                                    ![t].tracker_raised = TRUE,
                                                    ![t].exit = h.exit,
                                                    ![t].record = h.record,
                                                    ![t].exc = h.exc]
                  ELSE /\ tracker' = tr1
                       /\ events' = Append(events, StartedEvent(operation_name, clock))
                       /\ lock' = a.lock
                       /\ tasks' = [tasks EXCEPT ![t].pc = "op",
                                                 ![t].name = operation_name,
                                                 ![t].acquired = TRUE,
                                                 ![t].op_called = TRUE]

\* The flash closure reaches the upload stage and ota_upload opens its
\* connection to the device.
FlashConnect(t) ==
    /\ tasks[t].pc = "op"
    /\ tasks[t].name = "flash_firmware"
    /\ ~tasks[t].conn
    /\ tasks' = [tasks EXCEPT ![t].conn = TRUE]
    /\ UNCHANGED <<lock, tracker, events, clock, holders, last_call, ota, flash, press, entry>>

\* ota_upload returns: its finally clause has closed the connection.
FlashDisconnect(t) ==
    /\ tasks[t].pc = "op"
    /\ tasks[t].conn
    /\ tasks' = [tasks EXCEPT ![t].conn = FALSE]
    /\ UNCHANGED <<lock, tracker, events, clock, holders, last_call, ota, flash, press, entry>>

\* The closure returns its result: complete_operation(True), the success
\* record, then finally.  An async_fire failure inside complete_operation is
\* raised within the try block and handled by the except clause.
OpReturn(t, complete_raises, fail_raises) ==
    /\ tasks[t].pc = "op"
    /\ ~tasks[t].conn
    /\ UNCHANGED <<clock, holders, last_call, ota, flash, press, entry>>
    /\ LET tr1 == TrackerComplete(tracker, TRUE, None, clock)
       IN IF complete_raises
          THEN LeaveByException(t, tr1, BusExc, fail_raises, TRUE)
          ELSE /\ tracker' = tr1
               /\ events' = Append(events, CompletedEvent(tr1, TRUE, None))
               /\ lock' = FinallyRelease(lock, tasks[t].name, "returned")
               /\ tasks' = [tasks EXCEPT ![t].pc = "done",
                                         ![t].exit = "returned",
                                         ![t].record =
                                             Some([success |-> TRUE, result |-> "result",
                                                   error |-> None,
                                                   duration_ms |-> TrackerDuration(tr1, clock)])]

\* The closure raises ex (ota_upload's finally closes an open connection on
\* the way out): except clause, then finally.
OpRaise(t, ex, fail_raises) ==
    /\ tasks[t].pc = "op"
    /\ UNCHANGED <<clock, holders, last_call, ota, flash, press, entry>>
        /\ LET h == ExceptClause(tracker, ex, fail_raises, clock)
       IN /\ tracker' = h.tracker
          /\ events' = events \o h.fired
          /\ lock' = FinallyRelease(lock, tasks[t].name, h.exit)
          /\ tasks' = [tasks EXCEPT ![t].pc = "done",
                                    ![t].op_exc = Some(ex),
                                    ![t].exit = h.exit,
                                    ![t].record = h.record,
                                    ![t].exc = h.exc,
                                    ![t].conn = FALSE,
                                    ![t].tracker_raised = h.tracker_raised]

----------------------------------------------------------------------------
(* Flash guards: check_flash_guards (flash_guards.py) *)

DEFAULT_GATES_FRESHNESS_MINUTES == 10

\* str.join over a list of names, as ", ".join(names).
RECURSIVE JoinNames(_)
JoinNames(names) ==
    IF names = <<>> THEN ""
    ELSE IF Len(names) = 1 THEN Head(names)
    ELSE Head(names) \o ", " \o JoinNames(Tail(names))

\* What check_flash_guards reads: whether sensor.pvautonomy_ops_status
\* exists, its attributes gates_overall, gates_last_run (missing, not a
\* parsable timestamp, or a time whose age is `age` minutes), gates_fail and
\* gates_warn, and the options strict_gates_required and
\* gates_freshness_minutes.
GateStatuses ==
    [sensor : BOOLEAN,
     gates_overall : {None, "pass", "warn", "fail", "error"},
     gates_last_run : {None, "unparsable", "time"},
     age : {DEFAULT_GATES_FRESHNESS_MINUTES - 1, DEFAULT_GATES_FRESHNESS_MINUTES,
            DEFAULT_GATES_FRESHNESS_MINUTES + 1},
     gates_fail : {<<"contract">>},
     gates_warn : {<<"freshness", "telemetry">>},
     strict_gates : BOOLEAN,
     freshness_minutes : {DEFAULT_GATES_FRESHNESS_MINUTES}]

FlashGuardError(block_reason, message) ==
    [type |-> "FlashGuardError", msg |-> message, base |-> "Exception",
     block_reason |-> block_reason]

GuardReturn(passed, block_reason, message) ==
    [raised |-> Nothing, passed |-> passed, block_reason |-> block_reason,
     message |-> message]

GuardRaise(ex) ==
    [raised |-> Some(ex), passed |-> FALSE, block_reason |-> ex.block_reason,
     message |-> ex.msg]

\* Variant: gates whose age equals the window count as expired.
GatesExpiredAtLimit(age, freshness_minutes) == age >= freshness_minutes

\* "if age > gates_freshness_timeout"
GatesExpired(age, freshness_minutes) == age > freshness_minutes

\* check_flash_guards(hass): the tuple it returns, or the FlashGuardError it
\* raises.  It contains no await that suspends.
CheckFlashGuards(g) ==
    IF ~g.sensor
    THEN GuardRaise(FlashGuardError("gates_missing",
                        "Status sensor not found - cannot validate gates"))
    ELSE IF g.gates_overall = None
    THEN GuardReturn(FALSE, "gates_missing",
                     "Quality gates not run - press 'Run Gates' first")
    ELSE IF g.gates_last_run = None
    THEN GuardReturn(FALSE, "gates_missing",
                     "Gates timestamp missing - press 'Run Gates' first")
    ELSE IF g.gates_last_run = "unparsable"
    THEN GuardReturn(FALSE, "invalid_timestamp",
                     "Gates timestamp invalid format - run gates again")
    ELSE IF GatesExpired(g.age, g.freshness_minutes)
    THEN GuardReturn(FALSE, "gates_stale",
                     "Gates expired (" \o ToString(g.age) \o "min old, limit "
                        \o ToString(g.freshness_minutes) \o "min) - run gates again")
    ELSE IF g.gates_overall = "fail"
    THEN GuardReturn(FALSE, "gates_failed",
                     "Gates FAILED: " \o JoinNames(g.gates_fail) \o " - fix issues first")
    ELSE IF g.gates_overall = "warn" /\ g.strict_gates
    THEN GuardReturn(FALSE, "gates_warned",
                     "Gates WARNED: " \o JoinNames(g.gates_warn)
                        \o " - resolve warnings (strict mode)")
    ELSE IF g.gates_overall # "pass"
    THEN GuardReturn(FALSE, "gates_failed",
                     "Gates status '" \o g.gates_overall \o "' not acceptable")
    ELSE GuardReturn(TRUE, "", "Flash guards passed")

----------------------------------------------------------------------------
(* Flash pipeline: PVAutonomyOpsFlashButton._execute_flash (button.py) *)

MaxAttempts == 2

\* config.get("flash_min_firmware_size_kb", 300)
MinSizeKbDefault == 300
MinSizeBytes == MinSizeKbDefault * 1024

\* config.get("artifact_hw_family_default", "edge101")
HwFamilyDefault == "edge101"

\* The release published under ARTIFACTS_BASE_URL: the hw_family its manifest
\* declares, the size of its binary, and whether the binary's SHA-256 is the
\* one the manifest states.
Releases ==
    [manifest_hw : {HwFamilyDefault, "edge200"},
     size : {MinSizeBytes - 1, MinSizeBytes},
     sha_match : BOOLEAN]

\* The parameters download_artifact declares, and the keywords the call in
\* _execute_flash passes.
DownloadArtifactParams ==
    [required |-> {"version", "hw_family", "temp_dir"}, optional |-> {"channel"}]

DownloadCallKeywords ==
    {"version", "hw_family", "temp_dir", "channel", "owner", "repo"}

\* Python binds a keyword call to a signature without **kwargs only if every
\* keyword names a parameter and every required parameter is given;
\* otherwise the call raises TypeError before the function body runs.
CallBinds(keywords, params) ==
    /\ params.required \subseteq keywords
    /\ keywords \subseteq (params.required \cup params.optional)

UnexpectedKeywordExc ==
    [type |-> "TypeError",
     msg |-> "download_artifact() got an unexpected keyword argument 'owner'",
     base |-> "Exception"]

\* tempfile.mkdtemp failing (no space, no permission).
MkdtempExc ==
    [type |-> "OSError", msg |-> "[Errno 28] No space left on device",
     base |-> "Exception"]

ValueErrorExc(message) == [type |-> "ValueError", msg |-> message, base |-> "Exception"]

\* str(e)
StrOf(ex) == ex.msg

\* No _execute_flash invocation yet.  dirs are the temporary directories on
\* disk and jobs the shutil.rmtree jobs handed to the executor, both named
\* by the attempt that created them; net lists, in order, the accesses the
\* attempt made to the release server and to the device.
FlashIdle ==
    [pc |-> "idle", attempt |-> 0, stage |-> None, version |-> None,
     error |-> None, stage_events |-> <<>>, guard |-> Nothing,
     temp_dir |-> Nothing, dirs |-> {}, jobs |-> {}, exc |-> Nothing,
     exit |-> Nothing, result |-> Nothing, net |-> <<>>, calculated |-> Nothing,
     last_reported_pct |-> -1, monitor_type |-> None,
     initial_uptime |-> Nothing, offline_detected |-> FALSE, elapsed |-> 0,
     cur_state |-> Nothing, uptime_before |-> Nothing,
     release |-> [manifest_hw |-> HwFamilyDefault, size |-> MinSizeBytes,
                  sha_match |-> TRUE]]

\* update_stage(stage, progress): sets flash_state["stage"] and fires the
\* <DOMAIN>_flash_stage event.
UpdateStage(f, stage, progress) ==
    [f EXCEPT !.stage = stage,
              !.stage_events = Append(@, [stage |-> stage, progress |-> progress,
                                          version |-> f.version,
                                          target_device |-> "device_id",
                                          error |-> f.error])]

FlashOthersUnchanged ==
    UNCHANGED <<lock, tracker, events, clock, tasks, holders, last_call, ota, press, entry>>

\* _execute_flash(device_id) is entered: flash_state is built.
FlashBegin(f, release) ==
    [f EXCEPT !.pc = "init", !.attempt = @ + 1, !.stage = "init",
              !.version = None, !.error = None,
              !.stage_events = <<>>, !.guard = Nothing,
              !.temp_dir = Nothing, !.exc = Nothing,
              !.exit = Nothing, !.result = Nothing,
              !.net = <<>>, !.calculated = Nothing,
              !.last_reported_pct = -1,
              !.monitor_type = None, !.initial_uptime = Nothing,
              !.offline_detected = FALSE, !.elapsed = 0,
              !.cur_state = Nothing, !.uptime_before = Nothing,
              !.release = release]

FlashStart(release) ==
    /\ flash.pc \in {"idle", "done"}
    /\ flash.attempt < MaxAttempts
    /\ flash' = FlashBegin(flash, release)
    /\ FlashOthersUnchanged

\* Variant: the init stage fires no event.
FlashInitSilent ==
    /\ flash.pc = "init"
    /\ flash' = [flash EXCEPT !.pc = "preflight"]
    /\ UNCHANGED <<lock, tracker, events, clock, tasks, holders, last_call, ota, press, entry>>

\* STAGE 1: update_stage("init", 0).
FlashInit ==
    /\ flash.pc = "init"
    /\ flash' = [UpdateStage(flash, "init", 0) EXCEPT !.pc = "preflight"]
    /\ FlashOthersUnchanged

\* Variant: a False guard decision is ignored and the pipeline goes on.
GuardBlockedProceeds(f, r) == [f EXCEPT !.pc = "mkdtemp"]

\* The guard decision was False: the error is stored, failed(0) is fired and
\* ValueError is raised.
GuardBlocked(f, r) ==
    LET f1 == [f EXCEPT !.error = "Preflight failed: " \o r.message]
        f2 == UpdateStage(f1, "failed", 0)
    IN [f2 EXCEPT !.exc = Some(ValueErrorExc(f2.error)), !.pc = "outer_except"]

\* STAGE 2: update_stage("preflight", 10), then check_flash_guards on the
\* gate status g as it is now.
FlashPreflight(g) ==
    /\ flash.pc = "preflight"
    /\ LET f1 == UpdateStage(flash, "preflight", 10)
           r == CheckFlashGuards(g)
           f2 == [f1 EXCEPT !.guard = Some(r)]
       IN flash' = IF r.raised # Nothing
                   THEN [f2 EXCEPT !.exc = r.raised, !.pc = "outer_except"]
                   ELSE IF ~r.passed
                   THEN GuardBlocked(f2, r)
                   ELSE [f2 EXCEPT !.pc = "mkdtemp"]
    /\ FlashOthersUnchanged

\* temp_dir = Path(tempfile.mkdtemp(...)); the inner try block is entered
\* only once the directory exists.
FlashMkdtemp(ok) ==
    /\ flash.pc = "mkdtemp"
    /\ flash' = IF ok
                THEN [flash EXCEPT !.temp_dir = Some(flash.attempt),
                                   !.dirs = @ \cup {flash.attempt},
                                   !.pc = "download"]
                ELSE [flash EXCEPT !.exc = Some(MkdtempExc), !.pc = "outer_except"]
    /\ FlashOthersUnchanged

\* STAGE 3: the configuration is read, update_stage("download", 30) is
\* fired, and download_artifact is called with the keywords owner= and
\* repo=, which it does not declare: the call raises TypeError and the body
\* of download_artifact is not entered.  TypeError is neither ArtifactError
\* nor OTAError, so control goes to the finally clause.
FlashDownload ==
    /\ flash.pc = "download"
    /\ ~CallBinds(DownloadCallKeywords, DownloadArtifactParams)
    /\ flash' = [UpdateStage(flash, "download", 30) EXCEPT
                     !.exc = Some(UnexpectedKeywordExc), !.pc = "finally"]
    /\ FlashOthersUnchanged

\* finally: run_in_executor(None, shutil.rmtree, temp_dir, True) hands the
\* removal to the executor and the coroutine awaits the job.
FlashFinally ==
    /\ flash.pc = "finally"
    /\ flash' = [flash EXCEPT !.jobs = @ \cup {flash.temp_dir[1]},
                              !.pc = "cleanup_wait"]
    /\ FlashOthersUnchanged

\* An executor thread runs a pending shutil.rmtree job.
ExecutorRmtree(d) ==
    /\ d \in flash.jobs
    /\ flash' = [flash EXCEPT !.jobs = @ \ {d}, !.dirs = @ \ {d}]
    /\ FlashOthersUnchanged

\* The awaited job has finished: the coroutine resumes and the pending
\* exception leaves the inner try statement, or the pending return value is
\* returned.
FlashCleanupResume ==
    /\ flash.pc = "cleanup_wait"
    /\ flash.temp_dir[1] \notin flash.jobs
    /\ flash' = IF flash.exc = Nothing
                THEN [flash EXCEPT !.pc = "done", !.exit = Some("returned")]
                ELSE [flash EXCEPT !.pc = "outer_except"]
    /\ FlashOthersUnchanged

\* The task is cancelled while it awaits the job: CancelledError is raised
\* at the await and replaces the pending exception.  A job that is still
\* queued is cancelled with the future and never runs; a job that a thread
\* has already taken runs to its end.
FlashCancel(queued) ==
    /\ flash.pc = "cleanup_wait"
    /\ flash' = [flash EXCEPT !.exc = Some(CancelledExc),
                              !.jobs = IF queued THEN @ \ {flash.temp_dir[1]} ELSE @,
                              !.pc = "outer_except"]
    /\ FlashOthersUnchanged

\* Variant: the except clause reports failed with the progress last reported.
FlashOuterExceptKeepsProgress ==
    /\ flash.pc = "outer_except"
    /\ LET e == flash.exc[1]
           f1 == [flash EXCEPT !.error = StrOf(e)]
           last == flash.stage_events[Len(flash.stage_events)].progress
       IN flash' = IF Catches(e)
                   THEN [UpdateStage(f1, "failed", last) EXCEPT
                             !.pc = "done", !.exit = Some("raised")]
                   ELSE [flash EXCEPT !.pc = "done", !.exit = Some("raised")]
    /\ UNCHANGED <<lock, tracker, events, clock, tasks, holders, last_call, ota, press, entry>>

\* except Exception as e: the error is str(e), failed(0) is fired and e is
\* raised again.  An exception that is not an Exception passes through.
FlashOuterExcept ==
    /\ flash.pc = "outer_except"
    /\ LET e == flash.exc[1]
           f1 == [flash EXCEPT !.error = StrOf(e)]
       IN flash' = IF Catches(e)
                   THEN [UpdateStage(f1, "failed", 0) EXCEPT
                             !.pc = "done", !.exit = Some("raised")]
                   ELSE [flash EXCEPT !.pc = "done", !.exit = Some("raised")]
    /\ FlashOthersUnchanged

----------------------------------------------------------------------------
(* The flash button: PVAutonomyOpsFlashButton.async_press (button.py) and   *)
(* format_guard_block_message (flash_guards.py).  press.gates is the gate   *)
(* status the status sensor shows now; both guard checks read it.           *)

\* format_guard_block_message(hass, block_reason) on the gate status g (the
\* warning sign and the line break of the messages are left out).
FormatGuardBlockMessage(g, block_reason) ==
    IF ~g.sensor
    THEN "Status sensor unavailable - cannot determine block reason"
    ELSE IF block_reason = "gates_missing"
    THEN "Quality gates not run yet. Next step: Press 'Run Gates' button first."
    ELSE IF block_reason = "gates_stale"
    THEN (IF g.gates_last_run = "time"
          THEN "Quality gates expired (last run: " \o ToString(g.age)
                  \o " minutes ago). Next step: Press 'Run Gates' to refresh validation."
          ELSE "Quality gates too old. Next step: Run gates again.")
    ELSE IF block_reason = "gates_failed"
    THEN (IF g.gates_fail # <<>>
          THEN "Quality gates FAILED: " \o JoinNames(g.gates_fail)
                  \o " Next step: Fix issues, then run gates again."
          ELSE "Quality gates failed. Next step: Check gate details and fix issues.")
    ELSE IF block_reason = "gates_warned"
    THEN (IF g.gates_warn # <<>>
          THEN "Quality gates WARNED: " \o JoinNames(g.gates_warn)
                  \o " Next step: Resolve warnings or acknowledge risk."
          ELSE "Quality gates have warnings. Next step: Review and resolve.")
    ELSE "Flash blocked: " \o block_reason

\* _attr_extra_state_attributes as async_press writes them.
ButtonAttributes(target_device, last_result, firmware_version, error_message, block_reason) ==
    [target_device |-> target_device, last_result |-> last_result,
     firmware_version |-> firmware_version, error_message |-> error_message,
     block_reason |-> block_reason]

\* The gate status of a system whose gates have just passed.
GatesPassedFresh ==
    [sensor |-> TRUE, gates_overall |-> "pass", gates_last_run |-> "time",
     age |-> DEFAULT_GATES_FRESHNESS_MINUTES - 1, gates_fail |-> <<"contract">>,
     gates_warn |-> <<"freshness", "telemetry">>, strict_gates |-> TRUE,
     freshness_minutes |-> DEFAULT_GATES_FRESHNESS_MINUTES]

\* No press yet.  update is the last pvautonomy_ops_update event fired,
\* pressed_gates the gate status the press-time check read.
PressIdle ==
    [pc |-> "idle", gates |-> GatesPassedFresh, pressed_gates |-> Nothing,
     guard |-> Nothing, attrs |-> Nothing, update |-> Nothing,
     exit |-> Nothing, exc |-> Nothing]

SelectedDevices == {None, "sph10k_haus_03"}

\* The gate statuses the sensor is set to, one for each way through
\* check_flash_guards; the age then grows with time.
SensorStatuses ==
    {[GatesPassedFresh EXCEPT !.sensor = FALSE],
     [GatesPassedFresh EXCEPT !.gates_overall = None],
     [GatesPassedFresh EXCEPT !.gates_last_run = None],
     [GatesPassedFresh EXCEPT !.gates_last_run = "unparsable"],
     GatesPassedFresh,
     [GatesPassedFresh EXCEPT !.gates_overall = "fail"],
     [GatesPassedFresh EXCEPT !.gates_overall = "warn"],
     [GatesPassedFresh EXCEPT !.gates_overall = "warn", !.strict_gates = FALSE],
     [GatesPassedFresh EXCEPT !.gates_overall = "error"]}

\* async_press up to its first suspension after the device was read: no
\* device selected; the press-time guard check raising, blocking or
\* passing; and, on a pass, OperationRunner.run up to the first await of
\* _execute_flash (lock acquired, tracker started, flash_state built).
PressFlash(selected_device, release) ==
    /\ press.pc \in {"idle", "done"}
    /\ flash.pc \in {"idle", "done"}
    /\ flash.attempt < MaxAttempts
    /\ LET p0 == [press EXCEPT !.pressed_gates = Nothing, !.guard = Nothing,
                               !.exit = Nothing, !.exc = Nothing]
           r == CheckFlashGuards(press.gates)
           p1 == [p0 EXCEPT !.guard = Some(r)]
           a == LockAcquire(lock, "flash_firmware", clock)
       IN IF selected_device = None
          THEN /\ press' = [p0 EXCEPT
                                !.attrs = Some(ButtonAttributes(None, "rejected", None,
                                                                "No device selected", None)),
                                !.pc = "done", !.exit = Some("returned")]
               /\ UNCHANGED <<lock, tracker, events, flash>>
          ELSE IF r.raised # Nothing
          THEN /\ press' = [p1 EXCEPT !.pc = "done", !.exit = Some("raised"),
                                      !.exc = r.raised]
               /\ UNCHANGED <<lock, tracker, events, flash>>
          ELSE IF ~r.passed
          THEN /\ LET block_message == FormatGuardBlockMessage(press.gates, r.block_reason)
                  IN press' = [p1 EXCEPT
                                   !.attrs = Some(ButtonAttributes(selected_device, "blocked",
                                                      None, block_message, r.block_reason)),
                                   !.update = Some([op_state |-> "blocked",
                                                    last_error |-> block_message,
                                                    block_reason |-> r.block_reason]),
                                   !.pc = "done", !.exit = Some("returned")]
               /\ UNCHANGED <<lock, tracker, events, flash>>
          ELSE IF ~a.ret
          THEN /\ press' = [p1 EXCEPT
                                !.attrs = Some(ButtonAttributes(selected_device, "failed",
                                                   None, BlockedRecord(lock).error, None)),
                                !.pc = "done", !.exit = Some("returned")]
               /\ UNCHANGED <<lock, tracker, events, flash>>
          ELSE /\ press' = [p1 EXCEPT !.pc = "running",
                                      !.pressed_gates = Some(press.gates)]
               /\ lock' = a.lock
               /\ tracker' = TrackerStart(tracker, "flash_firmware", clock)
               /\ events' = Append(events, StartedEvent("flash_firmware", clock))
               /\ flash' = FlashBegin(flash, release)
    /\ UNCHANGED <<clock, tasks, holders, last_call, ota, entry>>

\* _execute_flash has returned or raised: the rest of OperationRunner.run
\* (complete_operation, the finally clause) and of async_press.
PressFinish ==
    /\ press.pc = "running"
    /\ flash.pc = "done"
    /\ LET returned == flash.exit = Some("returned")
           ex == flash.exc[1]
           error_msg == FormatError(ex)
       IN /\ lock' = LockRelease(lock, "flash_firmware").lock
          /\ IF returned
             THEN /\ tracker' = TrackerComplete(tracker, TRUE, None, clock)
                  /\ events' = Append(events, CompletedEvent(tracker', TRUE, None))
                  /\ press' = [press EXCEPT
                                   !.attrs = Some(ButtonAttributes("sph10k_haus_03", "success",
                                                      flash.result[1].firmware_version,
                                                      None, None)),
                                   !.pressed_gates = Nothing,
                                   !.pc = "done", !.exit = Some("returned")]
             ELSE IF Catches(ex)
             THEN /\ tracker' = TrackerComplete(tracker, FALSE, error_msg, clock)
                  /\ events' = Append(events, CompletedEvent(tracker', FALSE, error_msg))
                  /\ press' = [press EXCEPT
                                   !.attrs = Some(ButtonAttributes("sph10k_haus_03", "failed",
                                                      None, error_msg, None)),
                                   !.pressed_gates = Nothing,
                                   !.pc = "done", !.exit = Some("returned")]
             ELSE /\ UNCHANGED <<tracker, events>>
                  /\ press' = [press EXCEPT !.pc = "done", !.exit = Some("raised"),
                                            !.pressed_gates = Nothing,
                                            !.exc = flash.exc]
    /\ UNCHANGED <<clock, tasks, holders, last_call, ota, flash, entry>>

\* Time passes: the gates' last run is a minute older.  This can happen
\* between any two statements.
GatesAge ==
    /\ press.gates.age <= DEFAULT_GATES_FRESHNESS_MINUTES
    /\ press' = [press EXCEPT !.gates.age = @ + 1]
    /\ UNCHANGED <<lock, tracker, events, clock, tasks, holders, last_call, ota, flash, entry>>

\* The gates are run again, the sensor or the options change: another task
\* does this while no press runs or while the press is suspended (the only
\* await of _execute_flash that suspends before the download is entered is
\* the one on the cleanup job).
GatesChange(g) ==
    /\ press.pc \in {"idle", "done"} \/ flash.pc = "cleanup_wait"
    /\ g # press.gates
    /\ press' = [press EXCEPT !.gates = g]
    /\ UNCHANGED <<lock, tracker, events, clock, tasks, holders, last_call, ota, flash, entry>>

\* The release on the server while the button is pressed: a valid one.
PublishedRelease ==
    [manifest_hw |-> HwFamilyDefault, size |-> MinSizeBytes, sha_match |-> TRUE]

\* Variant: preflight decides on the gate status read at press time.
PreflightGatesCached == press.pressed_gates[1]

\* The gate status check_flash_guards reads at the preflight stage.
PreflightGates == press.gates

----------------------------------------------------------------------------
(* The config entry: async_setup_entry, async_unload_entry and              *)
(* _async_options_updated (__init__.py) and the button platform's           *)
(* async_setup_entry and async_setup_platform (button.py).  Every           *)
(* async_setup_entry builds a new OperationLock, OperationTracker and       *)
(* OperationRunner; a button entity keeps the runner it was built with.     *)

MaxReloads == 2

\* async_setup_entry has run once and Home Assistant has not started yet:
\* the objects of the first setup are in hass.data and start_integration
\* waits for EVENT_HOMEASSISTANT_STARTED.  locks[g] and trackers[g] are the
\* objects the g-th setup built.  yaml_buttons says whether the legacy YAML
\* button platform is configured: its entities were built by
\* async_setup_platform with the runner of the first setup and do not
\* belong to the config entry.  entry_buttons is the setup whose runner the
\* entry's button entities hold, if they exist.  ops are the operations
\* inside OperationRunner.run, by the setup of their runner; last_press is
\* how the last press since the last setup ended: the operation started,
\* or refused as busy; waiting are the setups whose listener waits for the
\* start event.
EntryLoaded(yaml) ==
    [started |-> FALSE, yaml_buttons |-> yaml, setups |-> 1,
     locks |-> <<LockInit>>, trackers |-> <<TrackerInit>>,
     waiting |-> {1}, entry_buttons |-> Nothing, ops |-> {}, last_press |-> None]

EntryOthersUnchanged ==
    UNCHANGED <<lock, tracker, events, tasks, holders, last_call, ota, flash, press>>

\* Variant: async_setup_entry forwards the platforms at once when Home
\* Assistant is already running.
ForwardedAtSetupWhenRunning(started) == started

\* Whether async_setup_entry itself sets the platforms up: never, it only
\* registers start_integration with async_listen_once for
\* EVENT_HOMEASSISTANT_STARTED.
ForwardedAtSetup(started) == FALSE

\* EVENT_HOMEASSISTANT_STARTED is fired, once: the waiting start_integration
\* listeners run and forward the platforms; the button platform reads the
\* runner from hass.data, which holds the objects of the last setup.  With
\* the YAML platform's entities present the entry's entities have the same
\* unique ids and are not added.
HomeAssistantStarted ==
    /\ ~entry.started
    /\ entry' = [entry EXCEPT
                     !.started = TRUE,
                     !.waiting = {},
                     !.entry_buttons = IF entry.waiting # {} /\ ~entry.yaml_buttons
                                       THEN Some(entry.setups) ELSE @]
    /\ UNCHANGED clock
    /\ EntryOthersUnchanged

\* _async_options_updated: async_reload unloads the entry (the platforms'
\* entities are removed, hass.data[DOMAIN] is popped; running tasks are not
\* touched) and runs async_setup_entry again, which registers another
\* start_integration listener.
OptionsUpdated ==
    /\ entry.setups <= MaxReloads
    /\ LET g == entry.setups + 1
       IN entry' = [entry EXCEPT
                        !.setups = g,
                        !.locks = Append(@, LockInit),
                        !.trackers = Append(@, TrackerInit),
                        !.waiting = @ \cup {g},
                        !.last_press = None,
                        !.entry_buttons = IF ForwardedAtSetup(entry.started)
                                                /\ ~entry.yaml_buttons
                                          THEN Some(g) ELSE Nothing]
    /\ UNCHANGED clock
    /\ EntryOthersUnchanged

\* The runners of the button entities that exist.
ButtonRunners ==
    (IF entry.yaml_buttons THEN {1} ELSE {})
        \cup (IF entry.entry_buttons # Nothing THEN {entry.entry_buttons[1]} ELSE {})

\* A button is pressed: OperationRunner.run of the entity's runner up to
\* the operation's first await, or its return when the lock is busy.
EntryPress(g, operation_name) ==
    /\ g \in ButtonRunners
    /\ LET a == LockAcquire(entry.locks[g], operation_name, clock)
       IN entry' = IF a.ret
                   THEN [entry EXCEPT
                             !.locks[g] = a.lock,
                             !.trackers[g] = TrackerStart(@, operation_name, clock),
                             !.ops = @ \cup {[runner |-> g, name |-> operation_name]},
                             !.last_press = "started"]
                   ELSE [entry EXCEPT !.last_press = "busy"]
    /\ UNCHANGED clock
    /\ EntryOthersUnchanged

\* The operation returns or raises an Exception: complete_operation and
\* the release of the runner's lock.
EntryOpEnds(op, success) ==
    /\ op \in entry.ops
    /\ entry' = [entry EXCEPT
                     !.locks[op.runner] = LockRelease(@, op.name).lock,
                     !.trackers[op.runner] =
                         TrackerComplete(@, success,
                                         IF success THEN None ELSE FormatError(OTAErrorExc),
                                         clock),
                     !.ops = @ \ {op}]
    /\ UNCHANGED clock
    /\ EntryOthersUnchanged

----------------------------------------------------------------------------
(* The stages of _execute_flash behind the download call, and the bodies of *)
(* download_artifact and verify_artifact (artifacts.py).  They run only     *)
(* when download_artifact is entered, that is with the four parameters its  *)
(* signature declares; SpecStages takes the call that way, SpecFlash takes  *)
(* it as button.py writes it.                                               *)

\* max_wait and the sleep between two polls of the postcheck loop, seconds.
MaxWait == 90
PollInterval == 2

\* The percentages ota_upload may pass to progress_cb: pct is reported only
\* when it is at least last_reported_pct + 5, starting from -1.
EnginePcts == {4, 55, 100}

\* What hass.states.get(monitor_entity) may return: no state object, an
\* unavailable/unknown state, a numeric state or a non-numeric one.
Readings ==
    [kind : {"missing", "unavailable", "text"}, value : {0}]
    \cup [kind : {"number"}, value : {3, 500}]

ArtifactErrorExc(message) ==
    [type |-> "ArtifactError", msg |-> message, base |-> "Exception"]

FlashOtaErrorExc(message) ==
    [type |-> "OTAError", msg |-> message, base |-> "Exception"]

\* The nonce bytes of the device are not ASCII: bytes.decode raises.
UnicodeDecodeExc ==
    [type |-> "UnicodeDecodeError",
     msg |-> "'ascii' codec can't decode byte 0xff in position 0: ordinal not in range(128)",
     base |-> "Exception"]

\* The exceptions ota_upload may leave with.
UploadExceptions ==
    {FlashOtaErrorExc("OTA error (chunk@8192): Unknown error from device"),
     UnicodeDecodeExc}

\* An exception raised inside the inner try block: ArtifactError and
\* OTAError have their except clause, everything else goes to finally.
LeaveInnerTry(f, ex) ==
    [f EXCEPT !.exc = Some(ex),
              !.pc = IF ex.type \in {"ArtifactError", "OTAError"}
                     THEN "inner_except" ELSE "finally"]

\* STAGE 3 with download_artifact entered: the configuration is read,
\* update_stage("download", 30) is fired and the URLs are built.
StageDownload ==
    /\ flash.pc = "download"
    /\ CallBinds(DownloadCallKeywords \ {"owner", "repo"}, DownloadArtifactParams)
    /\ flash' = [UpdateStage(flash, "download", 30) EXCEPT !.pc = "fetch_manifest"]
    /\ FlashOthersUnchanged

\* download_artifact: GET manifest.json, the schema check and the hw_family
\* check.  Every failure is an ArtifactError.
DownloadManifest(outcome) ==
    /\ flash.pc = "fetch_manifest"
    /\ LET f1 == [flash EXCEPT !.net = Append(@, "manifest")]
       IN flash' =
            IF outcome = "status"
            THEN LeaveInnerTry(f1, ArtifactErrorExc("Manifest download failed: 404 Not Found"))
            ELSE IF outcome = "fields"
            THEN LeaveInnerTry(f1, ArtifactErrorExc("Invalid manifest: missing fields ['sha256']"))
            ELSE IF flash.release.manifest_hw # HwFamilyDefault
            THEN LeaveInnerTry(f1,
                     ArtifactErrorExc("Hardware family mismatch: expected '" \o HwFamilyDefault
                                      \o "', manifest declares '"
                                      \o flash.release.manifest_hw \o "'"))
            ELSE [f1 EXCEPT !.pc = "fetch_binary"]
    /\ FlashOthersUnchanged

\* download_artifact: GET firmware.bin, write it into temp_dir and return
\* the FirmwareArtifact.
DownloadBinary(outcome) ==
    /\ flash.pc = "fetch_binary"
    /\ LET f1 == [flash EXCEPT !.net = Append(@, "binary")]
       IN flash' =
            IF outcome = "status"
            THEN LeaveInnerTry(f1, ArtifactErrorExc("Firmware download failed: 404 Not Found"))
            ELSE [f1 EXCEPT !.pc = "size_gate"]
    /\ FlashOthersUnchanged

\* The version is stored and the size gate is evaluated: a firmware smaller
\* than min_size_kb * 1024 bytes fires failed(0) and raises ValueError;
\* otherwise STAGE 4: update_stage("verify", 50) and verify_artifact.
StageSizeGate ==
    /\ flash.pc = "size_gate"
    /\ LET f1 == [flash EXCEPT !.version = "1.0.4"]
           firmware_size == flash.release.size
           f2 == [f1 EXCEPT !.error = "Firmware too small: " \o ToString(firmware_size)
                                        \o " bytes (minimum " \o ToString(MinSizeBytes)
                                        \o " bytes / " \o ToString(MinSizeKbDefault) \o " KB)"]
           f3 == UpdateStage(f2, "failed", 0)
       IN flash' = IF firmware_size < MinSizeBytes
                   THEN LeaveInnerTry(f3, ValueErrorExc(f3.error))
                   ELSE [UpdateStage(f1, "verify", 50) EXCEPT !.pc = "verify"]
    /\ FlashOthersUnchanged

\* The SHA-256 the manifest states, and the one _compute_sha256 returns for
\* the downloaded file.
ManifestSha == "sha256_of_manifest"
ComputedSha(release) == IF release.sha_match THEN ManifestSha ELSE "sha256_of_other_bytes"

\* Variant: the comparison accepts every digest.
HashAcceptedAlways(calculated, expected) == TRUE

\* verify_artifact: calculated != expected raises ArtifactError.
HashAccepted(calculated, expected) == calculated = expected

\* verify_artifact returns or raises; on return STAGE 5:
\* update_stage("upload", 30), then resolve_device_ip, whose failure fires
\* failed(0) and raises OTAError.
StageVerify(readable, ip_found) ==
    /\ flash.pc = "verify"
    /\ LET calculated == ComputedSha(flash.release)
           f1 == [UpdateStage(flash, "upload", 30) EXCEPT !.net = Append(@, "resolve_ip")]
           f2 == [f1 EXCEPT !.error = "Cannot resolve IP for device: device_id"]
           f3 == UpdateStage(f2, "failed", 0)
       IN flash' =
            IF ~readable
            THEN LeaveInnerTry(flash, ArtifactErrorExc(
                     "Cannot read firmware file: [Errno 2] No such file or directory"))
            ELSE IF ~HashAccepted(calculated, ManifestSha)
            THEN LeaveInnerTry([flash EXCEPT !.calculated = Some(calculated)],
                     ArtifactErrorExc("Firmware integrity check failed: SHA256 mismatch"))
            ELSE IF ~ip_found
            THEN LeaveInnerTry([f3 EXCEPT !.calculated = Some(calculated)],
                               FlashOtaErrorExc(f3.error))
            ELSE [f1 EXCEPT !.calculated = Some(calculated), !.pc = "password"]
    /\ FlashOthersUnchanged

\* The state of the device's uptime sensor when ota_upload is called: the
\* counter of a device that has been running for a while.
UptimeBefore == 500

\* get_ota_password has run in the executor; ota_upload is called.
StagePassword ==
    /\ flash.pc = "password"
    /\ flash' = [flash EXCEPT !.net = Append(@, "ota_upload"), !.pc = "upload",
                              !.uptime_before = Some(UptimeBefore)]
    /\ FlashOthersUnchanged

\* Variant: the engine percentage is added without being halved.
UploadFlashPctUnscaled(pct) == 30 + pct

\* _upload_progress(pct): flash_pct = 30 + int(pct * 0.5).
UploadFlashPct(pct) == 30 + (pct \div 2)

\* ota_upload awaits progress_cb(pct).
UploadProgress(pct) ==
    /\ flash.pc = "upload"
    /\ pct >= flash.last_reported_pct + 5
    /\ flash' = [UpdateStage(flash, "upload", UploadFlashPct(pct)) EXCEPT
                     !.last_reported_pct = pct]
    /\ FlashOthersUnchanged

\* ota_upload returns: STAGE 6, update_stage("postcheck", 85), sleep(3).
UploadReturn ==
    /\ flash.pc = "upload"
    /\ flash' = [UpdateStage(flash, "postcheck", 85) EXCEPT !.pc = "postcheck_sleep"]
    /\ FlashOthersUnchanged

\* ota_upload raises.
UploadRaise(ex) ==
    /\ flash.pc = "upload"
    /\ flash' = LeaveInnerTry(flash, ex)
    /\ FlashOthersUnchanged

\* except ArtifactError / except OTAError: the error is prefixed, failed(0)
\* is fired and the exception is raised again, through finally.
StageInnerExcept ==
    /\ flash.pc = "inner_except"
    /\ LET e == flash.exc[1]
           prefix == IF e.type = "ArtifactError" THEN "Artifact error: "
                     ELSE "OTA upload error: "
           f1 == [flash EXCEPT !.error = prefix \o StrOf(e)]
       IN flash' = [UpdateStage(f1, "failed", 0) EXCEPT !.pc = "finally"]
    /\ FlashOthersUnchanged

\* After sleep(3): the monitoring entity is looked up (uptime, then health,
\* then wifi) and, for an uptime sensor with a numeric state, the initial
\* uptime is read.  Without an entity the pipeline sleeps 15 s instead.
PostcheckFindMonitor(monitor_type, init_state) ==
    /\ flash.pc = "postcheck_sleep"
    /\ flash' = IF monitor_type = None
                THEN [flash EXCEPT !.pc = "fallback_sleep"]
                ELSE [flash EXCEPT
                          !.monitor_type = monitor_type,
                          !.initial_uptime =
                              IF monitor_type = "uptime" /\ init_state.kind = "number"
                              THEN Some(init_state.value) ELSE Nothing,
                          !.offline_detected = FALSE,
                          !.elapsed = 0,
                          !.pc = "poll"]
    /\ FlashOthersUnchanged

\* poll_pct = 85 + int((elapsed / max_wait) * 10), reported as min(poll_pct, 95).
PollPct(elapsed) ==
    LET poll_pct == 85 + ((elapsed * 10) \div MaxWait)
    IN IF poll_pct < 95 THEN poll_pct ELSE 95

\* Variant: a device that stays unavailable fails the pipeline.
PostcheckPollFailsOffline(cur) ==
    /\ flash.pc = "poll"
    /\ LET elapsed == flash.elapsed + PollInterval
           f1 == [UpdateStage(flash, "postcheck", PollPct(elapsed)) EXCEPT
                      !.elapsed = elapsed, !.cur_state = Some(cur)]
       IN flash' = IF cur.kind = "unavailable"
                   THEN LeaveInnerTry(f1, FlashOtaErrorExc("Device offline after upload"))
                   ELSE [f1 EXCEPT !.pc = IF elapsed < MaxWait THEN "poll" ELSE "complete"]
    /\ UNCHANGED <<lock, tracker, events, clock, tasks, holders, last_call, ota, press, entry>>

\* Variant: the loop without method 3 (online after offline).
PostcheckPollNoOnlineCheck(cur) ==
    /\ flash.pc = "poll"
    /\ LET elapsed == flash.elapsed + PollInterval
           f1 == [UpdateStage(flash, "postcheck", PollPct(elapsed)) EXCEPT
                      !.elapsed = elapsed, !.cur_state = Some(cur)]
           cur_available == cur.kind # "unavailable"
           offline == flash.offline_detected \/ ~cur_available
           uptime_reset == /\ flash.monitor_type = "uptime"
                           /\ cur_available
                           /\ flash.initial_uptime # Nothing
                           /\ cur.kind = "number"
                           /\ cur.value < flash.initial_uptime[1]
           again == IF elapsed < MaxWait THEN "poll" ELSE "complete"
       IN flash' =
            IF cur.kind = "missing"
            THEN [f1 EXCEPT !.pc = again]
            ELSE IF uptime_reset
            THEN [f1 EXCEPT !.offline_detected = offline, !.pc = "complete"]
            ELSE [f1 EXCEPT !.offline_detected = offline, !.pc = again]
    /\ UNCHANGED <<lock, tracker, events, clock, tasks, holders, last_call, ota, press, entry>>

\* One turn of the polling loop: sleep(2), the progress event, then the
\* three detection methods on the current state cur.
PostcheckPoll(cur) ==
    /\ flash.pc = "poll"
    /\ LET elapsed == flash.elapsed + PollInterval
           f1 == [UpdateStage(flash, "postcheck", PollPct(elapsed)) EXCEPT
                      !.elapsed = elapsed, !.cur_state = Some(cur)]
           cur_available == cur.kind # "unavailable"
           offline == flash.offline_detected \/ ~cur_available
           uptime_reset == /\ flash.monitor_type = "uptime"
                           /\ cur_available
                           /\ flash.initial_uptime # Nothing
                           /\ cur.kind = "number"
                           /\ cur.value < flash.initial_uptime[1]
           back_online == offline /\ cur_available
           again == IF elapsed < MaxWait THEN "poll" ELSE "complete"
       IN flash' =
            IF cur.kind = "missing"
            THEN [f1 EXCEPT !.pc = again]
            ELSE IF uptime_reset \/ back_online
            THEN [f1 EXCEPT !.offline_detected = offline, !.pc = "complete"]
            ELSE [f1 EXCEPT !.offline_detected = offline, !.pc = again]
    /\ FlashOthersUnchanged

\* No monitoring entity: sleep(15) is over.
PostcheckFallback ==
    /\ flash.pc = "fallback_sleep"
    /\ flash' = [flash EXCEPT !.pc = "complete"]
    /\ FlashOthersUnchanged

\* STAGE 7: update_stage("complete", 100) and the return statement, which
\* passes through finally.
StageComplete ==
    /\ flash.pc = "complete"
    /\ flash' = [UpdateStage(flash, "complete", 100) EXCEPT
                     !.result = Some([result |-> "success", device_id |-> "device_id",
                                      firmware_version |-> flash.version,
                                      stage |-> "complete"]),
                     !.pc = "finally"]
    /\ FlashOthersUnchanged

\* The positions at which _execute_flash awaits inside the inner try block.
StageAwaits ==
    {"fetch_manifest", "fetch_binary", "verify", "password", "upload",
     "postcheck_sleep", "poll", "fallback_sleep"}

\* The task is cancelled at one of these awaits: CancelledError has no
\* except clause in the inner try statement.
StageCancel ==
    /\ flash.pc \in StageAwaits
    /\ flash' = LeaveInnerTry(flash, CancelledExc)
    /\ FlashOthersUnchanged

----------------------------------------------------------------------------
(* espota2 transport engine: protocol constants *)

RESPONSE_OK == 0
RESPONSE_REQUEST_AUTH == 1
RESPONSE_REQUEST_SHA256_AUTH == 2
RESPONSE_HEADER_OK == 64
RESPONSE_AUTH_OK == 65
RESPONSE_UPDATE_PREPARE_OK == 66
RESPONSE_BIN_MD5_OK == 67
RESPONSE_RECEIVE_OK == 68
RESPONSE_UPDATE_END_OK == 69
RESPONSE_SUPPORTS_COMPRESSION == 70
RESPONSE_CHUNK_OK == 71
RESPONSE_ERROR_MAGIC == 128
RESPONSE_ERROR_MD5_MISMATCH == 139
RESPONSE_ERROR_UNKNOWN == 255
OTA_VERSION_2_0 == 2
UPLOAD_BLOCK_SIZE == 8192
MagicLen == 5
NonceLen == 64
SizeFieldLen == 4
Md5HexLen == 32
\* Length of gzip.compress(b""): header, empty deflate block and trailer.
GzipMinSize == 20

\* The keys of _ERROR_MESSAGES: 0x80..0x8B and 0xFF.
ErrorCodes ==
    (RESPONSE_ERROR_MAGIC .. RESPONSE_ERROR_MD5_MISMATCH) \cup {RESPONSE_ERROR_UNKNOWN}

\* The bytes a device may answer at any read: every named response code,
\* every error code and one value (0x10) that no protocol constant names.
DeviceBytes ==
    {RESPONSE_OK, RESPONSE_REQUEST_AUTH, RESPONSE_REQUEST_SHA256_AUTH, 16}
    \cup (RESPONSE_HEADER_OK .. RESPONSE_CHUNK_OK) \cup ErrorCodes

\* Firmware sizes: empty, and around every multiple of the block size.
MaxBlocks == 2
FileSizes ==
    {0} \cup {n \in {k * UPLOAD_BLOCK_SIZE + d : k \in 0..MaxBlocks, d \in {-1, 0, 1}} : n > 0}

\* gzip.compress(file_contents): the length of the compressed payload is
\* not the length of the file; any length from the gzip framing upwards.
GzipSizes(n) ==
    {GzipMinSize + 1} \cup {m \in FileSizes : m > GzipMinSize /\ m <= n}

OtaError(reason) == [type |-> "OTAError", reason |-> reason]

\* Mutant: the expected-value comparison made before the error table.
CheckResponseExpectedFirst(data, expected) ==
    IF expected = Nothing THEN "ok"
    ELSE IF data = <<>> THEN "empty"
    ELSE IF data[1] \notin expected[1] THEN "unexpected"
    ELSE IF data[1] \in ErrorCodes THEN "device_error"
    ELSE "ok"

\* _check_response(data, expected, description): "ok" when it returns, else
\* the reason of the OTAError it raises.  expected is Nothing (None) or
\* Some(set of accepted bytes).
CheckResponse(data, expected) ==
    IF expected = Nothing THEN "ok"
    ELSE IF data = <<>> THEN "empty"
    ELSE IF data[1] \in ErrorCodes THEN "device_error"
    ELSE IF data[1] \notin expected[1] THEN "unexpected"
    ELSE "ok"

\* Variant: any protocol version accepted.
VersionSupportedAny(version) == version = version

\* "if version != OTA_VERSION_2_0: raise OTAError(Unsupported OTA version)"
VersionSupported(version) == version = OTA_VERSION_2_0

\* Variant: the challenge is entered whether or not a password was given.
PasswordMissingIgnored(password) == FALSE

\* "if password is None": the test made when the device asks for SHA-256.
PasswordMissing(password) == password = None

\* Mutant: the legacy request answered like the SHA256 request.
AuthBranchLegacyFallback(auth_type, password) ==
    IF auth_type = RESPONSE_AUTH_OK THEN "no_auth"
    ELSE IF auth_type \in {RESPONSE_REQUEST_SHA256_AUTH, RESPONSE_REQUEST_AUTH}
         THEN (IF password = None THEN "no_password" ELSE "sha256")
    ELSE "unknown_auth"

\* The if/elif chain on auth_type: what the engine does next.
AuthBranch(auth_type, password) ==
    IF auth_type = RESPONSE_AUTH_OK THEN "no_auth"
    ELSE IF auth_type = RESPONSE_REQUEST_SHA256_AUTH
         THEN (IF PasswordMissing(password) THEN "no_password" ELSE "sha256")
    ELSE IF auth_type = RESPONSE_REQUEST_AUTH THEN "md5_auth_refused"
    ELSE "unknown_auth"

\* Mutant: the plain OK code accepted as a chunk acknowledgement too.
ChunkAckExpectedAlsoOk == {RESPONSE_CHUNK_OK, RESPONSE_OK}

\* The value _check_response expects of a chunk acknowledgement.
ChunkAckExpected == {RESPONSE_CHUNK_OK}

\* Mutant: the next chunk written without waiting for the acknowledgement.
AfterChunkWritePipelined(o) ==
    IF o.offset < o.upload_size THEN "send_chunk" ELSE "recv_chunk_ack"

\* After writer.write(chunk) and drain() the engine reads the chunk's
\* acknowledgement.
AfterChunkWrite(o) == "recv_chunk_ack"

\* "while offset < upload_size": another chunk, or on to finalization.
LoopOrFinish(o) ==
    IF o.offset < o.upload_size THEN "send_chunk" ELSE "recv_receive_ok"

\* pct = int((offset / upload_size) * 100)
Pct(offset, upload_size) == (offset * 100) \div upload_size

Min(a, b) == IF a < b THEN a ELSE b

OtaInit(file_size, password) ==
    [pc |-> "start", file_size |-> file_size, password |-> password,
     writer |-> "none", use_compression |-> FALSE, upload_size |-> 0,
     offset |-> 0, last_reported_pct |-> -1,
     sent |-> <<>>, reads |-> <<>>, chunks |-> 0, acks |-> 0,
     progress |-> <<>>, exc |-> Nothing,
     wait_closed |-> "none", elapsed |-> 0, waited |-> 0,
     announced |-> Nothing, slices |-> <<>>]

\* What one _recv_exactly call can end in: n bytes, the connection closed
\* before n bytes arrived, or the per-read timeout.
ReadFailures == {"closed", "timeout"}
ReadOutcomes1 ==
    [fail : {"none"}, data : {<<b>> : b \in DeviceBytes}]
    \cup [fail : ReadFailures, data : {<<>>}]
ReadOutcomes2 ==
    [fail : {"none"}, data : {<<a, b>> : a \in DeviceBytes, b \in DeviceBytes}]
    \cup [fail : ReadFailures, data : {<<>>}]

\* An exception leaves the try block: only the finally clause is left.
OtaRaise(o, exc) == [o EXCEPT !.pc = "finally", !.exc = Some(exc), !.waited = 0]

\* writer.write(...) of a message of n bytes.
OtaWritten(o, kind, n) ==
    [o EXCEPT !.sent = Append(@, [kind |-> kind, len |-> n])]

\* A completed _recv_exactly, with the number of messages written so far.
OtaHasRead(o, what, data) ==
    [o EXCEPT !.reads = Append(@, [what |-> what, data |-> data, sent |-> Len(o.sent)]),
              !.waited = 0]

\* writer.write(msg); await writer.drain(): to pc next, or a network error.
OtaSend(o, kind, n, next, drain_ok) ==
    IF drain_ok
    THEN [OtaWritten(o, kind, n) EXCEPT !.pc = next]
    ELSE OtaRaise(OtaWritten(o, kind, n), OtaError("network"))

\* resp = await _recv_exactly(...); _check_response(resp, expected, ...):
\* to pc next when the byte is accepted.
OtaRecvChecked(o, what, r, expected, next) ==
    IF r.fail # "none" THEN OtaRaise(o, OtaError(r.fail))
    ELSE LET o1 == OtaHasRead(o, what, r.data)
             c == CheckResponse(r.data, expected)
         IN IF c # "ok" THEN OtaRaise(o1, OtaError(c))
            ELSE [o1 EXCEPT !.pc = next]

OtaOthersUnchanged ==
    UNCHANGED <<lock, tracker, events, clock, tasks, holders, last_call, flash, press, entry>>

\* Read the firmware file; an empty file is refused before connecting.
OtaStart ==
    /\ ota.pc = "start"
    /\ ota' = IF ota.file_size = 0
              THEN [ota EXCEPT !.pc = "done", !.exc = Some(OtaError("empty_file"))]
              ELSE [ota EXCEPT !.pc = "connect"]
    /\ OtaOthersUnchanged

\* asyncio.open_connection under the connect timeout.
OtaConnect(connected) ==
    /\ ota.pc = "connect"
    /\ ota' = IF connected
              THEN [ota EXCEPT !.pc = "send_magic", !.writer = "open", !.waited = 0]
              ELSE OtaRaise(ota, OtaError("network"))
    /\ OtaOthersUnchanged

OtaSendMagic(drain_ok) ==
    /\ ota.pc = "send_magic"
    /\ ota' = OtaSend(ota, "magic", MagicLen, "recv_version", drain_ok)
    /\ OtaOthersUnchanged

\* Two bytes in one read: the magic response, checked, and the version.
OtaRecvVersion(r) ==
    /\ ota.pc = "recv_version"
    /\ ota' = IF r.fail # "none" THEN OtaRaise(ota, OtaError(r.fail))
              ELSE LET o1 == OtaHasRead(ota, "version", r.data)
                       c == CheckResponse(SubSeq(r.data, 1, 1), Some({RESPONSE_OK}))
                   IN IF c # "ok" THEN OtaRaise(o1, OtaError(c))
                      ELSE IF ~VersionSupported(r.data[2])
                           THEN OtaRaise(o1, OtaError("unsupported_version"))
                      ELSE [o1 EXCEPT !.pc = "send_features"]
    /\ OtaOthersUnchanged

OtaSendFeatures(drain_ok) ==
    /\ ota.pc = "send_features"
    /\ ota' = OtaSend(ota, "features", 1, "recv_features", drain_ok)
    /\ OtaOthersUnchanged

\* The feature response is only compared with SUPPORTS_COMPRESSION; the
\* payload is the gzip of the file, or the file.
OtaRecvFeatures(r, gz) ==
    /\ ota.pc = "recv_features"
    /\ gz \in GzipSizes(ota.file_size)
    /\ ota' = IF r.fail # "none" THEN OtaRaise(ota, OtaError(r.fail))
              ELSE LET o1 == OtaHasRead(ota, "features", r.data)
                       compress == r.data[1] = RESPONSE_SUPPORTS_COMPRESSION
                   IN [o1 EXCEPT !.pc = "recv_auth",
                                 !.use_compression = compress,
                                 !.upload_size = IF compress THEN gz ELSE ota.file_size]
    /\ OtaOthersUnchanged

OtaRecvAuth(r) ==
    /\ ota.pc = "recv_auth"
    /\ ota' = IF r.fail # "none" THEN OtaRaise(ota, OtaError(r.fail))
              ELSE LET o1 == OtaHasRead(ota, "auth type", r.data)
                       b == AuthBranch(r.data[1], ota.password)
                   IN IF b = "no_auth" THEN [o1 EXCEPT !.pc = "send_size"]
                      ELSE IF b = "sha256" THEN [o1 EXCEPT !.pc = "recv_nonce"]
                      ELSE OtaRaise(o1, OtaError(b))
    /\ OtaOthersUnchanged

\* The 64-byte device nonce, decoded as ASCII.
OtaRecvNonce(fail, ascii) ==
    /\ ota.pc = "recv_nonce"
    /\ ota' = IF fail # "none" THEN OtaRaise(ota, OtaError(fail))
              ELSE LET o1 == OtaHasRead(ota, "SHA256 nonce", <<>>)
                   IN IF ascii THEN [o1 EXCEPT !.pc = "send_cnonce"]
                      ELSE OtaRaise(o1, [type |-> "UnicodeDecodeError", reason |-> "nonce"])
    /\ OtaOthersUnchanged

OtaSendCnonce(drain_ok) ==
    /\ ota.pc = "send_cnonce"
    /\ ota' = OtaSend(ota, "cnonce", NonceLen, "send_digest", drain_ok)
    /\ OtaOthersUnchanged

OtaSendDigest(drain_ok) ==
    /\ ota.pc = "send_digest"
    /\ ota' = OtaSend(ota, "digest", NonceLen, "recv_auth_result", drain_ok)
    /\ OtaOthersUnchanged

OtaRecvAuthResult(r) ==
    /\ ota.pc = "recv_auth_result"
    /\ ota' = OtaRecvChecked(ota, "auth result", r, Some({RESPONSE_AUTH_OK}), "send_size")
    /\ OtaOthersUnchanged

\* Variant: the size field announces the length of the firmware file.
AnnouncedFileSize(o) == o.file_size

\* upload_size = len(upload_data); size_bytes = upload_size.to_bytes(4, "big")
AnnouncedSize(o) == o.upload_size

\* The size field: four bytes, big-endian, holding the payload's length.
OtaSendSize(drain_ok) ==
    /\ ota.pc = "send_size"
    /\ ota' = OtaSend([ota EXCEPT !.announced = Some(AnnouncedSize(ota))],
                      "size", SizeFieldLen, "recv_prepare", drain_ok)
    /\ OtaOthersUnchanged

OtaRecvPrepare(r) ==
    /\ ota.pc = "recv_prepare"
    /\ ota' = OtaRecvChecked(ota, "update prepare", r,
                             Some({RESPONSE_UPDATE_PREPARE_OK}), "send_md5")
    /\ OtaOthersUnchanged

OtaSendMd5(drain_ok) ==
    /\ ota.pc = "send_md5"
    /\ ota' = OtaSend(ota, "md5", Md5HexLen, "recv_md5", drain_ok)
    /\ OtaOthersUnchanged

OtaRecvMd5(r) ==
    /\ ota.pc = "recv_md5"
    /\ ota' = LET o1 == OtaRecvChecked(ota, "binary MD5", r,
                                       Some({RESPONSE_BIN_MD5_OK}), "loop")
              IN IF o1.pc = "loop"
                 THEN [o1 EXCEPT !.pc = LoopOrFinish(o1), !.offset = 0,
                                 !.last_reported_pct = -1]
                 ELSE o1
    /\ OtaOthersUnchanged

\* One chunk: upload_data[offset : offset + UPLOAD_BLOCK_SIZE], a slice that
\* ends at the payload's end when fewer bytes are left; slices lists the
\* slices written.
OtaSendChunk(drain_ok) ==
    /\ ota.pc = "send_chunk"
    /\ ota' = LET n == Min(UPLOAD_BLOCK_SIZE, ota.upload_size - ota.offset)
                  o1 == [OtaWritten(ota, "chunk", n) EXCEPT
                             !.slices = Append(@, [from |-> ota.offset,
                                                   to |-> ota.offset + n])]
              IN IF drain_ok
                 THEN LET o2 == [o1 EXCEPT !.offset = @ + n, !.chunks = @ + 1]
                      IN [o2 EXCEPT !.pc = AfterChunkWrite(o2)]
                 ELSE OtaRaise([o1 EXCEPT !.chunks = @ + 1], OtaError("network"))
    /\ OtaOthersUnchanged

\* The chunk's acknowledgement, then the progress callback at 5% steps.
OtaRecvChunkAck(r) ==
    /\ ota.pc = "recv_chunk_ack"
    /\ ota' = LET o1 == OtaRecvChecked(ota, "chunk", r, Some(ChunkAckExpected), "loop")
              IN IF o1.pc = "loop"
                 THEN LET pct == Pct(o1.offset, o1.upload_size)
                          report == pct >= o1.last_reported_pct + 5
                      IN [o1 EXCEPT !.pc = LoopOrFinish(o1),
                                    !.acks = @ + 1,
                                    !.last_reported_pct = IF report THEN pct ELSE @,
                                    !.progress = IF report THEN Append(@, pct) ELSE @]
                 ELSE IF r.fail = "none" THEN [o1 EXCEPT !.acks = @ + 1]
                 ELSE o1
    /\ OtaOthersUnchanged

OtaRecvReceiveOk(r) ==
    /\ ota.pc = "recv_receive_ok"
    /\ ota' = OtaRecvChecked(ota, "receive OK", r, Some({RESPONSE_RECEIVE_OK}),
                             "recv_update_end")
    /\ OtaOthersUnchanged

OtaRecvUpdateEnd(r) ==
    /\ ota.pc = "recv_update_end"
    /\ ota' = OtaRecvChecked(ota, "update end", r, Some({RESPONSE_UPDATE_END_OK}),
                             "send_final_ok")
    /\ OtaOthersUnchanged

\* The final acknowledgement that lets the device reboot.
OtaSendFinalOk(drain_ok) ==
    /\ ota.pc = "send_final_ok"
    /\ ota' = OtaSend(ota, "final_ok", 1, "finally", drain_ok)
    /\ OtaOthersUnchanged

\* Variant: an exception of wait_closed replaces the call's outcome.
OtaFinallyPropagates(wait_closed_raises) ==
    /\ ota.pc = "finally"
    /\ ota' = [ota EXCEPT !.pc = "done",
                          !.writer = IF @ = "open" THEN "closed" ELSE @,
                          !.wait_closed = IF ota.writer # "open" THEN "none"
                                          ELSE IF wait_closed_raises THEN "raised"
                                          ELSE "ok",
                          !.exc = IF ota.writer = "open" /\ wait_closed_raises
                                  THEN Some(OtaError("network")) ELSE @]
    /\ OtaOthersUnchanged

\* finally: "if writer:" close it and await wait_closed(), whose exception
\* is swallowed.  ota_upload then returns, or raises the pending exception.
OtaFinally(wait_closed_raises) ==
    /\ ota.pc = "finally"
    /\ ota' = [ota EXCEPT !.pc = "done",
                          !.writer = IF @ = "open" THEN "closed" ELSE @,
                          !.wait_closed = IF ota.writer # "open" THEN "none"
                                          ELSE IF wait_closed_raises THEN "raised"
                                          ELSE "ok"]
    /\ OtaOthersUnchanged

\* The timeouts of the engine, in seconds: asyncio.wait_for around
\* open_connection and around every readexactly, and the timeout_s
\* parameter of ota_upload (its default; button.py passes the same value).
OTA_CONNECT_TIMEOUT == 20
OTA_DATA_TIMEOUT == 90
timeout_s == 120

\* The time one wait for the device takes before its read completes.
WaitStep == 61

\* The awaits on the device: the connection and every _recv_exactly.
DeviceAwaits ==
    {"connect", "recv_version", "recv_features", "recv_auth", "recv_nonce",
     "recv_auth_result", "recv_prepare", "recv_md5", "recv_chunk_ack",
     "recv_receive_ok", "recv_update_end"}

\* Time passes while the engine awaits the device, within the timeout of
\* that await.  Nothing in ota_upload reads timeout_s, so the wait is not
\* bounded by it.
OtaAwaitTime ==
    /\ ota.pc \in DeviceAwaits
    /\ ota.elapsed <= timeout_s
    /\ ota.waited + WaitStep <
          (IF ota.pc = "connect" THEN OTA_CONNECT_TIMEOUT ELSE OTA_DATA_TIMEOUT)
    /\ ota' = [ota EXCEPT !.waited = @ + WaitStep, !.elapsed = @ + WaitStep]
    /\ OtaOthersUnchanged

\* What get_ota_password hands to the engine: None when the key is in
\* neither secrets file (or its value is empty in YAML), else the value of
\* the key as written, the empty string included.
OtaPasswords == {None, "", "secret"}

InitOta ==
    /\ lock = LockInit
    /\ tracker = TrackerInit
    /\ events = <<>>
    /\ clock = 0
    /\ tasks = [t \in 1..NumTasks |-> TaskInit]
    /\ holders = <<>>
    /\ last_call = NoCall
    /\ \E n \in FileSizes, pw \in OtaPasswords : ota = OtaInit(n, pw)
    /\ flash = FlashIdle
    /\ press = PressIdle
    /\ entry = EntryLoaded(FALSE)

NextOta ==
    \/ OtaStart
    \/ \E c \in BOOLEAN : OtaConnect(c)
    \/ \E d \in BOOLEAN : OtaSendMagic(d)
    \/ \E r \in ReadOutcomes2 : OtaRecvVersion(r)
    \/ \E d \in BOOLEAN : OtaSendFeatures(d)
    \/ \E r \in ReadOutcomes1, gz \in GzipSizes(ota.file_size) : OtaRecvFeatures(r, gz)
    \/ \E r \in ReadOutcomes1 : OtaRecvAuth(r)
    \/ \E f \in {"none"} \cup ReadFailures, a \in BOOLEAN : OtaRecvNonce(f, a)
    \/ \E d \in BOOLEAN : OtaSendCnonce(d)
    \/ \E d \in BOOLEAN : OtaSendDigest(d)
    \/ \E r \in ReadOutcomes1 : OtaRecvAuthResult(r)
    \/ \E d \in BOOLEAN : OtaSendSize(d)
    \/ \E r \in ReadOutcomes1 : OtaRecvPrepare(r)
    \/ \E d \in BOOLEAN : OtaSendMd5(d)
    \/ \E r \in ReadOutcomes1 : OtaRecvMd5(r)
    \/ \E d \in BOOLEAN : OtaSendChunk(d)
    \/ \E r \in ReadOutcomes1 : OtaRecvChunkAck(r)
    \/ \E r \in ReadOutcomes1 : OtaRecvReceiveOk(r)
    \/ \E r \in ReadOutcomes1 : OtaRecvUpdateEnd(r)
    \/ \E d \in BOOLEAN : OtaSendFinalOk(d)
    \/ \E w \in BOOLEAN : OtaFinally(w)

SpecOta == InitOta /\ [][NextOta]_vars

NextOtaTimed ==
    \/ NextOta
    \/ OtaAwaitTime

SpecOtaTimed == InitOta /\ [][NextOtaTimed]_vars

----------------------------------------------------------------------------
(* Specifications of the lock, tracker and runner *)

\* holders without its first occurrence of name n.
RECURSIVE RemoveFirst(_, _)
RemoveFirst(s, n) ==
    IF s = <<>> THEN <<>>
    ELSE IF Head(s) = n THEN Tail(s)
    ELSE <<Head(s)>> \o RemoveFirst(Tail(s), n)

\* Some coroutine calls lock.acquire(n) directly.
CallAcquire(n) ==
    LET a == LockAcquire(lock, n, clock)
    IN /\ lock' = a.lock
       /\ holders' = IF a.ret THEN Append(holders, n) ELSE holders
       /\ last_call' = [op |-> "acquire", name |-> n, ret |-> a.ret,
                        lock_before |-> lock]
       /\ UNCHANGED <<tracker, events, clock, tasks, ota, flash, press, entry>>

\* Some coroutine calls lock.release(n) directly.
CallRelease(n) ==
    LET r == LockRelease(lock, n)
    IN /\ lock' = r.lock
       /\ holders' = IF r.released THEN RemoveFirst(holders, n) ELSE holders
       /\ last_call' = [op |-> "release", name |-> n, ret |-> r.released,
                        lock_before |-> lock]
       /\ UNCHANGED <<tracker, events, clock, tasks, ota, flash, press, entry>>

\* Direct calls of the OperationTracker methods, in any order.  last_call
\* keeps the call, its argument and the tracker it was made on.
MaxCalls == 3

ProgressInputs == {-1, 0, 37, 100, 101}

TrackerCall(op, arg) ==
    [op |-> op, name |-> None, ret |-> FALSE, lock_before |-> LockInit,
     arg |-> arg, tracker_before |-> tracker]

CallStartOperation(n) ==
    /\ Len(events) < MaxCalls
    /\ tracker' = TrackerStart(tracker, n, clock)
    /\ events' = Append(events, StartedEvent(n, clock))
    /\ last_call' = TrackerCall("start_operation", 0)
    /\ UNCHANGED <<lock, clock, tasks, holders, ota, flash, press, entry>>

CallUpdateProgress(progress) ==
    /\ Len(events) < MaxCalls
    /\ tracker' = TrackerUpdateProgress(tracker, progress)
    /\ events' = Append(events, ProgressEvent(tracker'.progress, None))
    /\ last_call' = TrackerCall("update_progress", progress)
    /\ UNCHANGED <<lock, clock, tasks, holders, ota, flash, press, entry>>

CallCompleteOperation(success) ==
    /\ Len(events) < MaxCalls
    /\ LET error == IF success THEN None ELSE "OTAError: Network error during OTA upload"
       IN /\ tracker' = TrackerComplete(tracker, success, error, clock)
          /\ events' = Append(events, CompletedEvent(tracker', success, error))
    /\ last_call' = TrackerCall("complete_operation", 0)
    /\ UNCHANGED <<lock, clock, tasks, holders, ota, flash, press, entry>>

CallReset ==
    /\ tracker' = TrackerReset(tracker)
    /\ last_call' = TrackerCall("reset", 0)
    /\ UNCHANGED <<lock, events, clock, tasks, holders, ota, flash, press, entry>>

\* Time passes.
Tick ==
    /\ clock < MaxClock
    /\ clock' = clock + 1
    /\ UNCHANGED <<lock, tracker, events, tasks, holders, last_call, ota, flash, press, entry>>

Init ==
    /\ lock = LockInit
    /\ tracker = TrackerInit
    /\ events = <<>>
    /\ clock = 0
    /\ tasks = [t \in 1..NumTasks |-> TaskInit]
    /\ holders = <<>>
    /\ last_call = NoCall
    /\ ota = OtaInit(0, None)
    /\ flash = FlashIdle
    /\ press = PressIdle
    /\ entry = EntryLoaded(FALSE)

Next ==
    \/ \E t \in 1..NumTasks, n \in OperationNames, sr \in BOOLEAN, fr \in BOOLEAN :
           RunCall(t, n, sr, fr)
    \/ \E t \in 1..NumTasks : FlashConnect(t)
    \/ \E t \in 1..NumTasks : FlashDisconnect(t)
    \/ \E t \in 1..NumTasks, cr \in BOOLEAN, fr \in BOOLEAN : OpReturn(t, cr, fr)
    \/ \E t \in 1..NumTasks, ex \in OpExceptions, fr \in BOOLEAN : OpRaise(t, ex, fr)
    \/ Tick

Spec == Init /\ [][Next]_vars

NextLock ==
    \/ \E n \in OperationNames : CallAcquire(n)
    \/ \E n \in OperationNames : CallRelease(n)
    \/ Tick

SpecLock == Init /\ [][NextLock]_vars

NextTracker ==
    \/ \E n \in OperationNames : CallStartOperation(n)
    \/ \E progress \in ProgressInputs : CallUpdateProgress(progress)
    \/ \E success \in BOOLEAN : CallCompleteOperation(success)
    \/ CallReset
    \/ Tick

SpecTracker == Init /\ [][NextTracker]_vars

InitFlash ==
    /\ lock = LockInit
    /\ tracker = TrackerInit
    /\ events = <<>>
    /\ clock = 0
    /\ tasks = [t \in 1..NumTasks |-> TaskInit]
    /\ holders = <<>>
    /\ last_call = NoCall
    /\ ota = OtaInit(0, None)
    /\ flash = FlashIdle
    /\ press = PressIdle
    /\ entry = EntryLoaded(FALSE)

NextFlash ==
    \/ \E release \in Releases : FlashStart(release)
    \/ FlashInit
    \/ \E g \in GateStatuses : FlashPreflight(g)
    \/ \E ok \in BOOLEAN : FlashMkdtemp(ok)
    \/ FlashDownload
    \/ FlashFinally
    \/ \E d \in 1..MaxAttempts : ExecutorRmtree(d)
    \/ FlashCleanupResume
    \/ \E queued \in BOOLEAN : FlashCancel(queued)
    \/ FlashOuterExcept

SpecFlash == InitFlash /\ [][NextFlash]_vars

NextPress ==
    \/ \E d \in SelectedDevices : PressFlash(d, PublishedRelease)
    \/ PressFinish
    \/ GatesAge
    \/ \E g \in SensorStatuses : GatesChange(g)
    \/ FlashInit
    \/ FlashPreflight(PreflightGates)
    \/ \E ok \in BOOLEAN : FlashMkdtemp(ok)
    \/ FlashDownload
    \/ FlashFinally
    \/ \E d \in 1..MaxAttempts : ExecutorRmtree(d)
    \/ FlashCleanupResume
    \/ \E queued \in BOOLEAN : FlashCancel(queued)
    \/ FlashOuterExcept

SpecPress == InitFlash /\ [][NextPress]_vars

\* The guard check on every gate status: the sensor shows any status when
\* the button is pressed, and time passes.
InitGuards ==
    /\ lock = LockInit
    /\ tracker = TrackerInit
    /\ events = <<>>
    /\ clock = 0
    /\ tasks = [t \in 1..NumTasks |-> TaskInit]
    /\ holders = <<>>
    /\ last_call = NoCall
    /\ ota = OtaInit(0, None)
    /\ flash = FlashIdle
    /\ \E g \in GateStatuses : press = [PressIdle EXCEPT !.gates = g]
    /\ entry = EntryLoaded(FALSE)

NextGuards ==
    \/ \E d \in SelectedDevices : PressFlash(d, PublishedRelease)
    \/ PressFinish
    \/ GatesAge
    \/ FlashInit
    \/ FlashPreflight(PreflightGates)
    \/ \E ok \in BOOLEAN : FlashMkdtemp(ok)
    \/ FlashDownload
    \/ FlashFinally
    \/ \E d \in 1..MaxAttempts : ExecutorRmtree(d)
    \/ FlashCleanupResume
    \/ FlashOuterExcept

SpecGuards == InitGuards /\ [][NextGuards]_vars

\* The integration from its first setup on, with or without the legacy
\* YAML button platform.
InitReload ==
    /\ lock = LockInit
    /\ tracker = TrackerInit
    /\ events = <<>>
    /\ clock = 0
    /\ tasks = [t \in 1..NumTasks |-> TaskInit]
    /\ holders = <<>>
    /\ last_call = NoCall
    /\ ota = OtaInit(0, None)
    /\ flash = FlashIdle
    /\ press = PressIdle
    /\ \E yaml \in BOOLEAN : entry = EntryLoaded(yaml)

NextReload ==
    \/ HomeAssistantStarted
    \/ OptionsUpdated
    \/ \E g \in 1..(MaxReloads + 1), n \in OperationNames : EntryPress(g, n)
    \/ \E op \in entry.ops, success \in BOOLEAN : EntryOpEnds(op, success)
    \/ Tick

SpecReload == InitReload /\ [][NextReload]_vars

NextStages ==
    \/ \E release \in Releases : FlashStart(release)
    \/ FlashInit
    \/ \E g \in GateStatuses : FlashPreflight(g)
    \/ \E ok \in BOOLEAN : FlashMkdtemp(ok)
    \/ StageDownload
    \/ \E outcome \in {"status", "fields", "ok"} : DownloadManifest(outcome)
    \/ \E outcome \in {"status", "ok"} : DownloadBinary(outcome)
    \/ StageSizeGate
    \/ \E readable \in BOOLEAN, ip_found \in BOOLEAN : StageVerify(readable, ip_found)
    \/ StagePassword
    \/ \E pct \in EnginePcts : UploadProgress(pct)
    \/ UploadReturn
    \/ \E ex \in UploadExceptions : UploadRaise(ex)
    \/ StageInnerExcept
    \/ \E mt \in {None, "uptime", "health", "wifi"}, r \in Readings :
           PostcheckFindMonitor(mt, r)
    \/ \E cur \in Readings : PostcheckPoll(cur)
    \/ PostcheckFallback
    \/ StageComplete
    \/ StageCancel
    \/ FlashFinally
    \/ \E d \in 1..MaxAttempts : ExecutorRmtree(d)
    \/ FlashCleanupResume
    \/ \E queued \in BOOLEAN : FlashCancel(queued)
    \/ FlashOuterExcept

SpecStages == InitFlash /\ [][NextStages]_vars

----------------------------------------------------------------------------
(* Claims *)

Running == {t \in 1..NumTasks : tasks[t].pc = "op"}
Connected == {t \in 1..NumTasks : tasks[t].conn}

\* C1: over every sequence of acquire/release calls at most one name holds
\* the lock, and an acquire made while the lock is held returns False at
\* once and leaves the holder, its start time and the lock as they were.
C1_SingleHolder ==
    /\ Len(holders) <= 1
    /\ lock.locked <=> Len(holders) = 1
    /\ holders # <<>> => holders[1] = lock.current_operation
    /\ (last_call.op = "acquire" /\ last_call.lock_before.locked)
          => (~last_call.ret /\ lock = last_call.lock_before)

\* C1 witness: an acquire was refused while another name held the lock.
C1_Witness ==
    /\ last_call.op = "acquire"
    /\ last_call.lock_before.locked
    /\ last_call.name # lock.current_operation
    /\ lock.locked

\* C2: under any interleaving of button presses at most one operation
\* closure started through OperationRunner.run is executing, hence at most
\* one flash pipeline is active and at most one OTA connection is open.
C2_SingleFlight ==
    /\ Cardinality(Running) <= 1
    /\ Cardinality(Connected) <= 1
    /\ Connected \subseteq Running
    /\ \A t \in Running : lock.locked /\ lock.current_operation = tasks[t].name

\* C2 witness: a flash closure holds an open connection while another press
\* of the flash button was made and refused.
C2_Witness ==
    \E t, u \in 1..NumTasks :
        /\ t # u
        /\ tasks[t].pc = "op" /\ tasks[t].conn
        /\ tasks[u].pc = "done" /\ ~tasks[u].acquired
        /\ tasks[u].name = "flash_firmware"

\* C3: every run that acquired the lock has released it when it returns or
\* raises, on every exit path; once no run is in progress the lock is free
\* and any new run can acquire it.
C3_AlwaysReleased ==
    /\ lock.locked =>
          \E t \in Running : tasks[t].acquired /\ tasks[t].name = lock.current_operation
    /\ Running = {} =>
          /\ lock = LockInit
          /\ \A n \in OperationNames : LockAcquire(lock, n, clock).ret

\* C3 witness: one run left by an exception of a tracker call, another by an
\* exception of the operation that escaped run, and the lock is free.
C3_Witness ==
    \E t, u \in 1..NumTasks :
        /\ t # u
        /\ tasks[t].pc = "done" /\ tasks[t].acquired
        /\ tasks[t].tracker_raised /\ tasks[t].exit = "raised"
        /\ tasks[u].pc = "done" /\ tasks[u].acquired
        /\ tasks[u].op_exc # Nothing /\ tasks[u].exit = "raised"
        /\ ~lock.locked

\* C4: no failure raised by the operation closure escapes run: run returns
\* success=False, result=None, error="<Type>: <message>", and the tracker
\* ends failed with that error as last_error.  Stated for the runs in which
\* no tracker call raised, and for the tracker while no later run started.
C4_NoFailureEscapes ==
    \A t \in 1..NumTasks :
        (tasks[t].pc = "done" /\ tasks[t].op_exc # Nothing /\ ~tasks[t].tracker_raised)
        => /\ tasks[t].exit = "returned"
           /\ tasks[t].record # Nothing
           /\ tasks[t].record[1].success = FALSE
           /\ tasks[t].record[1].result = None
           /\ tasks[t].record[1].error = FormatError(tasks[t].op_exc[1])
           /\ (\A u \in (t + 1)..NumTasks : ~tasks[u].acquired)
                 => /\ tracker.state = "failed"
                    /\ tracker.last_error = FormatError(tasks[t].op_exc[1])

\* C5: a run called while the lock is held returns the blocked record
\* (success False, result None, error naming the holder, duration 0)
\* without invoking the operation, without touching the tracker or firing
\* an event, and without changing the lock, whatever name it was given.
C5_BlockedRunChangesNothing ==
    [][\A t \in 1..NumTasks :
          (tasks[t].pc = "idle" /\ tasks'[t].pc # "idle" /\ lock.locked)
          => /\ tasks'[t].pc = "done"
             /\ tasks'[t].exit = "returned"
             /\ tasks'[t].record =
                    Some([success |-> FALSE, result |-> None,
                          error |-> "Operation blocked: " \o lock.current_operation
                                        \o " already running",
                          duration_ms |-> 0])
             /\ ~tasks'[t].op_called
             /\ ~tasks'[t].acquired
             /\ tracker' = tracker
             /\ events' = events
             /\ lock' = lock]_vars

\* C5 witness: a run was refused whose name equals the holder's name, and
\* the holder still holds the lock.
C5_Witness ==
    \E t, u \in 1..NumTasks :
        /\ t # u
        /\ tasks[u].pc = "op"
        /\ tasks[t].pc = "done" /\ ~tasks[t].acquired
        /\ tasks[t].name = tasks[u].name
        /\ lock.locked /\ lock.current_operation = tasks[u].name

\* C6: release with a name other than the holder's releases nothing: the
\* lock, its holder and its start time stay as they were and any following
\* acquire returns False; release frees the lock only for the holder's name;
\* current_operation is set exactly when the lock is locked.
C6_MismatchedRelease ==
    /\ (lock.current_operation # None) <=> lock.locked
    /\ (lock.operation_started # Nothing) <=> lock.locked
    /\ last_call.op = "release" =>
          /\ last_call.ret <=> (last_call.name = last_call.lock_before.current_operation)
          /\ last_call.ret => lock = LockInit
          /\ ~last_call.ret =>
                /\ lock = last_call.lock_before
                /\ lock.locked =>
                      \A n \in OperationNames : ~LockAcquire(lock, n, clock).ret

\* C6 witness: a release with the wrong name was made on a held lock.
C6_Witness ==
    /\ last_call.op = "release"
    /\ ~last_call.ret
    /\ last_call.lock_before.locked
    /\ lock.locked

\* Number of entries of kind k among the first n messages written.
SentCount(k, n) == Cardinality({j \in 1..n : ota.sent[j].kind = k})
\* Number of reads named w among the first n reads.
ReadCount(w, n) == Cardinality({j \in 1..n : ota.reads[j].what = w})

\* The read at index i made ota_upload raise OTAError on the spot: it is
\* the last read, nothing was written after it, and only the finally
\* clause ran since.
AbortedAt(i) ==
    /\ i = Len(ota.reads)
    /\ Len(ota.sent) = ota.reads[i].sent
    /\ ota.pc \in {"finally", "done"}
    /\ ota.exc # Nothing
    /\ ota.exc[1].type = "OTAError"

\* C7: chunk k+1 is never written before exactly one acknowledgement byte
\* for chunk k was read: at most one chunk is unacknowledged at any time,
\* and when the loop has ended as many acknowledgements were read as chunks
\* were sent.
C7_OneChunkInFlight ==
    /\ ota.chunks = SentCount("chunk", Len(ota.sent))
    /\ ota.acks = ReadCount("chunk", Len(ota.reads))
    /\ ota.chunks - ota.acks \in {0, 1}
    /\ ota.pc = "send_chunk" => ota.chunks = ota.acks
    /\ \A i \in DOMAIN ota.reads :
          ota.reads[i].what = "chunk" =>
              /\ Len(ota.reads[i].data) = 1
              /\ ReadCount("chunk", i) = SentCount("chunk", ota.reads[i].sent)
    /\ (\/ ota.pc \in {"recv_receive_ok", "recv_update_end", "send_final_ok"}
        \/ (ota.pc \in {"finally", "done"} /\ ota.exc = Nothing))
          => /\ ota.acks = ota.chunks
             /\ ota.offset = ota.upload_size
             /\ ota.chunks >= 1

\* C7 witness: a transfer of several chunks ran to its end.
C7_Witness ==
    /\ ota.pc = "done"
    /\ ota.exc = Nothing
    /\ ota.chunks >= 2
    /\ ota.acks = ota.chunks

\* C8: a chunk acknowledgement other than chunk-OK (0x47), device error
\* code or not, aborts the transfer at that chunk: no further chunk and no
\* final OK is written and ota_upload raises OTAError.
C8_BadAckAborts ==
    \A i \in DOMAIN ota.reads :
        (ota.reads[i].what = "chunk" /\ ota.reads[i].data[1] # RESPONSE_CHUNK_OK)
        => /\ AbortedAt(i)
           /\ SentCount("final_ok", Len(ota.sent)) = 0
           /\ ota.chunks = ReadCount("chunk", i)

\* C8 witness: the first chunk of a longer payload was answered with a byte
\* that is neither chunk-OK nor an error code, and ota_upload has raised.
C8_Witness ==
    /\ ota.pc = "done"
    /\ ota.reads # <<>>
    /\ ota.reads[Len(ota.reads)].what = "chunk"
    /\ ota.reads[Len(ota.reads)].data[1] = RESPONSE_OK
    /\ ota.offset < ota.upload_size
    /\ ota.exc # Nothing

\* C9: on the legacy-auth request (0x01) the engine raises at once, with or
\* without a password: no nonce is read, and no client nonce, digest, size,
\* MD5 or chunk is sent.
C9_LegacyAuthRefused ==
    \A i \in DOMAIN ota.reads :
        (ota.reads[i].what = "auth type" /\ ota.reads[i].data[1] = RESPONSE_REQUEST_AUTH)
        => /\ AbortedAt(i)
           /\ ota.exc = Some(OtaError("md5_auth_refused"))
           /\ \A j \in DOMAIN ota.sent : ota.sent[j].kind \in {"magic", "features"}
           /\ ReadCount("SHA256 nonce", Len(ota.reads)) = 0

\* C9 witness: a password is available, the device asked for legacy auth,
\* and ota_upload has raised.
C9_Witness ==
    /\ ota.pc = "done"
    /\ ota.password # None
    /\ ota.reads # <<>>
    /\ ota.reads[Len(ota.reads)].what = "auth type"
    /\ ota.reads[Len(ota.reads)].data[1] = RESPONSE_REQUEST_AUTH

\* C10 as claimed: every response byte read that is a device error code
\* makes the engine raise at once, before anything more is sent.
C10_EveryByteChecked ==
    \A i \in DOMAIN ota.reads :
        (\E j \in DOMAIN ota.reads[i].data : ota.reads[i].data[j] \in ErrorCodes)
        => AbortedAt(i)

\* The reads whose first byte goes through _check_response.
CheckedReads ==
    {"version", "auth result", "update prepare", "binary MD5", "chunk",
     "receive OK", "update end"}

\* C10 amended: a byte validated by _check_response (magic response, auth
\* result, prepare, MD5, chunk ack, receive-complete, update-end) that is a
\* device error code raises the device error at once, before the expected
\* value is compared and before anything more is sent; an error code as
\* version or auth mode raises at once as unsupported version or unknown
\* auth type; the feature response is not checked: an error code there
\* means "no compression" and the engine goes on to read the auth mode.
C10_CheckedBytes ==
    \A i \in DOMAIN ota.reads :
        LET rd == ota.reads[i] IN
        /\ (rd.what \in CheckedReads /\ rd.data[1] \in ErrorCodes)
              => AbortedAt(i) /\ ota.exc = Some(OtaError("device_error"))
        /\ (rd.what = "version" /\ rd.data[2] \in ErrorCodes)
              => /\ AbortedAt(i)
                 /\ ota.exc[1].reason \in {"device_error", "unexpected", "unsupported_version"}
        /\ (rd.what = "auth type" /\ rd.data[1] \in ErrorCodes)
              => AbortedAt(i) /\ ota.exc = Some(OtaError("unknown_auth"))
        /\ (rd.what = "features" /\ rd.data[1] \in ErrorCodes)
              => /\ ~ota.use_compression
                 /\ ota.upload_size = ota.file_size
                 /\ (i = Len(ota.reads) /\ ota.exc # Nothing)
                       => ota.exc[1].reason \in ReadFailures

\* C10 witness: in one upload the feature response was an error code and
\* the engine went on, and a later chunk acknowledgement was an error code
\* and the engine raised.
C10_Witness ==
    /\ ota.pc = "done"
    /\ \E i, j \in DOMAIN ota.reads :
          /\ ota.reads[i].what = "features"
          /\ ota.reads[i].data[1] \in ErrorCodes
          /\ j = Len(ota.reads)
          /\ ota.reads[j].what = "chunk"
          /\ ota.reads[j].data[1] \in ErrorCodes
    /\ ota.exc = Some(OtaError("device_error"))

\* The events of the current flash attempt that carry the given stage.
StageEvents(stage) ==
    {i \in 1..Len(flash.stage_events) : flash.stage_events[i].stage = stage}

\* The download stage of the current attempt has been left.
DownloadLeft == flash.pc \in {"finally", "cleanup_wait"}

\* C11: if the manifest's hw_family differs from the requested hardware
\* family, the artifact is rejected with ArtifactError before the binary is
\* fetched, and the attempt ends in failed.
C11_HwMismatchRejected ==
    flash.release.manifest_hw # HwFamilyDefault =>
        /\ DownloadLeft =>
              flash.exc # Nothing /\ flash.exc[1].type = "ArtifactError"
        /\ flash.pc = "done" /\ flash.temp_dir # Nothing /\ Catches(flash.exc[1]) =>
              flash.stage = "failed"

\* C12: a firmware smaller than min_size_kb*1024 bytes makes the attempt
\* abort to failed before any verify event; a firmware of exactly the
\* threshold size passes the gate, so that the verify stage is entered.
C12_SizeGate ==
    DownloadLeft =>
        /\ flash.release.size < MinSizeBytes => StageEvents("verify") = {}
        /\ flash.release.size >= MinSizeBytes
              /\ flash.release.manifest_hw = HwFamilyDefault =>
              StageEvents("verify") # {}

\* The stages of the events fired so far in the current attempt.
StagesFired == {flash.stage_events[i].stage : i \in 1..Len(flash.stage_events)}

\* check_flash_guards returned passed=True in the current attempt.
GuardsPassed ==
    flash.guard # Nothing /\ flash.guard[1].raised = Nothing /\ flash.guard[1].passed

\* C14: in a flash attempt no download, verify, upload or postcheck event is
\* fired and no temporary directory is created unless check_flash_guards,
\* evaluated in that attempt's preflight stage, returned passed=True; a
\* False decision or a guard exception leads directly to failed.
C14_NothingBeforeGuardPass ==
    /\ (\/ StagesFired \cap {"download", "verify", "upload", "postcheck", "complete"} # {}
        \/ flash.temp_dir # Nothing
        \/ flash.attempt \in flash.dirs
        \/ flash.pc \in {"mkdtemp", "download", "finally", "cleanup_wait"})
          => GuardsPassed
    /\ (flash.guard # Nothing /\ ~GuardsPassed) =>
          /\ StagesFired \subseteq {"init", "preflight", "failed"}
          /\ flash.pc \in {"outer_except", "done"}
          /\ flash.pc = "done" =>
                /\ flash.stage = "failed"
                /\ flash.stage_events[Len(flash.stage_events)].stage = "failed"

\* C14 witness: a second attempt whose guard decision was False has ended in
\* failed with no temporary directory of its own, while the first attempt
\* had passed the guards and created one.
C14_Witness ==
    /\ flash.attempt = 2
    /\ flash.pc = "done"
    /\ flash.guard # Nothing /\ flash.guard[1].raised = Nothing /\ ~flash.guard[1].passed
    /\ flash.stage = "failed"
    /\ flash.dirs = {1}

\* C15: on every exit path of an attempt that created its temporary
\* directory, the directory has been removed when _execute_flash returns or
\* raises, and no directory of an earlier attempt exists while a later
\* attempt runs.
C15_TempDirRemoved ==
    /\ (flash.pc = "done" /\ flash.temp_dir # Nothing) =>
          flash.temp_dir[1] \notin flash.dirs
    /\ flash.pc \notin {"idle", "done"} =>
          \A d \in flash.dirs : d = flash.attempt

\* The fixed order of the stages other than failed, and the progress the
\* stages outside the upload and postcheck bands report.
StageOrder == <<"init", "preflight", "download", "verify", "upload", "postcheck", "complete">>
StageRank(stage) == CHOOSE k \in 1..Len(StageOrder) : StageOrder[k] = stage
FixedProgress(stage) ==
    CASE stage = "init" -> {0}
      [] stage = "preflight" -> {10}
      [] stage = "download" -> {30}
      [] stage = "verify" -> {50}
      [] stage = "complete" -> {100}
      [] OTHER -> 0..100

\* The events of the current attempt whose stage is not failed, in order.
NonFailedEvents == SelectSeq(flash.stage_events, LAMBDA e : e.stage # "failed")

\* C16: in a flash attempt the non-failed stage events come in the order
\* init(0), preflight(10), download(30), verify(50), upload, postcheck,
\* complete(100): the first one is init, each next one belongs to the same
\* stage (upload and postcheck only) or to the stage that follows, never to
\* an earlier or a later-but-one stage.
C16_StageOrder ==
    LET ev == NonFailedEvents
    IN /\ \A i \in 1..Len(ev) :
              /\ ev[i].stage \in {StageOrder[k] : k \in 1..Len(StageOrder)}
              /\ ev[i].progress \in FixedProgress(ev[i].stage)
       /\ Len(ev) > 0 => ev[1].stage = "init"
       /\ \A i \in 1..(Len(ev) - 1) :
              \/ StageRank(ev[i + 1].stage) = StageRank(ev[i].stage) + 1
              \/ /\ ev[i + 1].stage = ev[i].stage
                 /\ ev[i].stage \in {"upload", "postcheck"}

\* C16 witness: an attempt has fired init, preflight and download, in that
\* order, and has then failed.
C16_Witness ==
    /\ flash.pc = "done"
    /\ Len(NonFailedEvents) = 3
    /\ NonFailedEvents[3].stage = "download"
    /\ flash.stage = "failed"

\* C17: failed is absorbing within an attempt: after a failed event only
\* failed events follow, every failed event carries progress 0, and an
\* attempt that fired complete fires no failed event.
C17_FailedAbsorbing ==
    LET ev == flash.stage_events
    IN /\ \A i \in 1..Len(ev) : \A j \in (i + 1)..Len(ev) :
              ev[i].stage = "failed" => ev[j].stage = "failed"
       /\ \A i \in 1..Len(ev) : ev[i].stage = "failed" => ev[i].progress = 0
       /\ "complete" \in StagesFired => "failed" \notin StagesFired

\* C17 witness: a blocked attempt has fired failed at the guard block and
\* failed again in the except clause, and nothing after them.
C17_Witness ==
    /\ flash.pc = "done"
    /\ Cardinality(StageEvents("failed")) = 2
    /\ StageEvents("failed") = {Len(flash.stage_events) - 1, Len(flash.stage_events)}

\* The accesses made so far in the current attempt.
NetAccesses == {flash.net[i] : i \in 1..Len(flash.net)}

\* verify_artifact has recomputed the SHA-256 and it differs from the
\* manifest's.
HashMismatch == flash.calculated # Nothing /\ flash.calculated[1] # ManifestSha

\* C13: if the recomputed SHA-256 differs from the manifest's, the attempt
\* ends in failed, no upload event is fired and ota_upload is not invoked.
C13_HashMismatchStops ==
    HashMismatch =>
        /\ StagesFired \cap {"upload", "postcheck", "complete"} = {}
        /\ NetAccesses \cap {"resolve_ip", "ota_upload"} = {}
        /\ flash.pc \in {"inner_except", "finally", "cleanup_wait", "outer_except", "done"}
        /\ flash.pc = "done" =>
              /\ flash.stage = "failed"
              /\ flash.exit = Some("raised")

\* C13 witness: an attempt whose firmware hashed to another digest has ended
\* in failed right after the verify event.
C13_Witness ==
    /\ HashMismatch
    /\ flash.pc = "done"
    /\ flash.stage = "failed"
    /\ NonFailedEvents[Len(NonFailedEvents)].stage = "verify"

\* The progress values of the events of one stage, in the order fired.
ProgressOf(stage) ==
    LET ev == SelectSeq(flash.stage_events, LAMBDA e : e.stage = stage)
    IN [i \in 1..Len(ev) |-> ev[i].progress]

NonDecreasing(seq) == \A i \in 1..(Len(seq) - 1) : seq[i] <= seq[i + 1]

\* C18: within an attempt the upload events carry non-decreasing progress
\* values in [30, 80], the postcheck events non-decreasing values in
\* [85, 95], and an event with progress 0 is an init or a failed event.
C18_ProgressBands ==
    /\ NonDecreasing(ProgressOf("upload"))
    /\ \A i \in 1..Len(ProgressOf("upload")) : ProgressOf("upload")[i] \in 30..80
    /\ NonDecreasing(ProgressOf("postcheck"))
    /\ \A i \in 1..Len(ProgressOf("postcheck")) : ProgressOf("postcheck")[i] \in 85..95
    /\ \A i \in 1..Len(flash.stage_events) :
          flash.stage_events[i].progress = 0 =>
              flash.stage_events[i].stage \in {"init", "failed"}

\* C18 witness: an attempt has completed after upload events from 30 up to
\* 80 and a full window of postcheck events from 85 up to 95.
C18_Witness ==
    /\ flash.pc = "done"
    /\ flash.exit = Some("returned")
    /\ Len(ProgressOf("upload")) >= 3
    /\ ProgressOf("upload")[1] = 30
    /\ ProgressOf("upload")[Len(ProgressOf("upload"))] = 80
    /\ Len(ProgressOf("postcheck")) = 1 + (MaxWait \div PollInterval)
    /\ ProgressOf("postcheck")[1] = 85
    /\ ProgressOf("postcheck")[Len(ProgressOf("postcheck"))] = 95

\* ota_upload has returned in the current attempt.
UploadReturned == "postcheck" \in StagesFired

\* The attempt has fired complete(100) and returned its success result.
CompletedWithSuccess ==
    /\ \E i \in StageEvents("complete") : flash.stage_events[i].progress = 100
    /\ flash.exit = Some("returned")
    /\ flash.result # Nothing /\ flash.result[1].result = "success"

C20_AbortReportsFailed ==
    (flash.pc = "done" /\ flash.exit = Some("raised")) =>
        /\ Len(flash.stage_events) > 0
        /\ LET last == flash.stage_events[Len(flash.stage_events)]
           IN /\ last.stage = "failed"
              /\ last.error \notin {None, ""}

\* C21: running is entered only from idle, success and failed only from
\* running, idle only from success or failed, and queued never.  A run
\* whose started event cannot be fired starts and fails the operation in
\* one step: running is then entered from the state before the step.
C21_TrackerStateMachine ==
    [][/\ tracker'.state # "queued"
       /\ (tracker'.state = "running" /\ tracker.state # "running") =>
              tracker.state = "idle"
       /\ (tracker'.state = "success" /\ tracker.state # "success") =>
              tracker.state = "running"
       /\ (tracker'.state = "failed" /\ tracker.state # "failed") =>
              tracker.state \in {"running", "idle"}
       /\ (tracker'.state = "idle" /\ tracker.state # "idle") =>
              tracker.state \in {"success", "failed"}]_vars

\* max(0, min(100, pct)) as the claim states it.
Clamped(pct) == IF pct < 0 THEN 0 ELSE IF pct > 100 THEN 100 ELSE pct

\* C22: update_progress(pct) stores the clamped value and leaves every
\* other field as it was, and op_progress is within [0, 100] after any
\* sequence of start, update, complete and reset calls.
C22_ProgressClamped ==
    /\ tracker.progress \in 0..100
    /\ last_call.op = "update_progress" =>
          tracker = [last_call.tracker_before EXCEPT
                         !.progress = Clamped(last_call.arg)]

\* C22 witness: a running operation was given a progress above 100 and a
\* failed one a progress below 0.
C22_Witness ==
    /\ last_call.op = "update_progress"
    /\ \/ last_call.arg > 100 /\ tracker.state = "running" /\ tracker.progress = 100
       \/ last_call.arg < 0 /\ tracker.state = "failed" /\ tracker.progress = 0

\* The reads completed before the j-th message was written.
ReadsBefore(j) == {i \in DOMAIN ota.reads : ota.reads[i].sent < j}

\* The k-th last read completed before the j-th message (k = 0: the last)
\* was the read named what and returned data.
ReadBefore(j, k, what, data) ==
    LET n == Cardinality(ReadsBefore(j))
    IN /\ n > k
       /\ ota.reads[n - k].what = what
       /\ ota.reads[n - k].data = data

\* C23: every protocol message is written only after the response of the
\* phase before it was read and accepted: the feature byte after the magic
\* response OK with version 2, the size after the authentication phase
\* succeeded, the MD5 after prepare-OK, the first chunk after MD5-OK, the
\* final OK after every chunk was acknowledged and receive-OK and then
\* update-end-OK were read; ota_upload returns normally only after it has
\* written the final OK.
C23_PhaseOrder ==
    /\ \A j \in DOMAIN ota.sent :
          LET kind == ota.sent[j].kind IN
          /\ kind = "magic" => j = 1 /\ ReadsBefore(j) = {}
          /\ kind = "features" =>
                ReadBefore(j, 0, "version", <<RESPONSE_OK, OTA_VERSION_2_0>>)
          /\ kind = "size" =>
                \/ ReadBefore(j, 0, "auth type", <<RESPONSE_AUTH_OK>>)
                \/ /\ ReadBefore(j, 0, "auth result", <<RESPONSE_AUTH_OK>>)
                   /\ ReadBefore(j, 2, "auth type", <<RESPONSE_REQUEST_SHA256_AUTH>>)
          /\ kind = "md5" =>
                ReadBefore(j, 0, "update prepare", <<RESPONSE_UPDATE_PREPARE_OK>>)
          /\ (kind = "chunk" /\ SentCount("chunk", j) = 1) =>
                ReadBefore(j, 0, "binary MD5", <<RESPONSE_BIN_MD5_OK>>)
          /\ kind = "final_ok" =>
                /\ ReadBefore(j, 0, "update end", <<RESPONSE_UPDATE_END_OK>>)
                /\ ReadBefore(j, 1, "receive OK", <<RESPONSE_RECEIVE_OK>>)
                /\ ReadBefore(j, 2, "chunk", <<RESPONSE_CHUNK_OK>>)
                /\ ota.offset = ota.upload_size
                /\ Cardinality({i \in ReadsBefore(j) :
                                   /\ ota.reads[i].what = "chunk"
                                   /\ ota.reads[i].data = <<RESPONSE_CHUNK_OK>>})
                      = SentCount("chunk", j)
    /\ (ota.pc = "done" /\ ota.exc = Nothing) =>
          /\ ota.sent # <<>>
          /\ ota.sent[Len(ota.sent)].kind = "final_ok"

\* C23 witness: an authenticated transfer of several chunks has returned
\* normally.
C23_Witness ==
    /\ ota.pc = "done"
    /\ ota.exc = Nothing
    /\ SentCount("digest", Len(ota.sent)) = 1
    /\ SentCount("chunk", Len(ota.sent)) >= 2
    /\ SentCount("final_ok", Len(ota.sent)) = 1

\* C24: when ota_upload exits after the connection was established the
\* writer is closed; the finally clause writes and reads nothing and keeps
\* the outcome (return or pending exception) whether or not wait_closed
\* raised; nothing is written or read once the writer is closed.
C24_ClosedOnExit ==
    [][/\ ota'.pc = "done" => ota'.writer # "open"
       /\ (ota.pc = "finally" /\ ota'.pc = "done") =>
              /\ ota'.exc = ota.exc
              /\ ota'.sent = ota.sent /\ ota'.reads = ota.reads
              /\ ota.writer = "open" => ota'.writer = "closed"
       /\ ota.writer = "closed" =>
              /\ ota'.writer = "closed"
              /\ ota'.sent = ota.sent /\ ota'.reads = ota.reads]_vars

\* C24 witness: the transfer returned normally although awaiting the
\* closure raised (the device reset the connection while rebooting).
C24_Witness ==
    /\ ota.pc = "done"
    /\ ota.writer = "closed"
    /\ ota.wait_closed = "raised"
    /\ ota.exc = Nothing
    /\ SentCount("final_ok", Len(ota.sent)) = 1

\* C25: an invocation is bounded by timeout_s: a transfer that is not
\* finished when timeout_s seconds have elapsed is stopped, so none goes on
\* to its normal return after running longer than timeout_s.
C25_OverallTimeout ==
    (ota.pc = "done" /\ ota.exc = Nothing) => ota.elapsed <= timeout_s

\* This step is one poll of the postcheck loop.
PollStep == flash.pc = "poll" /\ flash'.elapsed = flash.elapsed + PollInterval

\* The reading r shows the signal available.
Available(r) == r.kind \in {"text", "number"}

\* C26: the postcheck loop polls every 2 s, at most 45 times (90 s); a
\* poll ends the loop exactly when the uptime read is lower than the
\* initial reading, or the signal is available after it was seen
\* unavailable at an earlier poll, or it is the 45th poll.
C26_PollingTerminates ==
    [][PollStep =>
          LET cur == flash'.cur_state[1]
              uptime_lower == /\ flash.monitor_type = "uptime"
                              /\ flash.initial_uptime # Nothing
                              /\ cur.kind = "number"
                              /\ cur.value < flash.initial_uptime[1]
              back_online == flash.offline_detected /\ Available(cur)
              last_poll == flash'.elapsed = 45 * PollInterval
          IN /\ flash.elapsed < 45 * PollInterval
             /\ flash'.pc = IF uptime_lower \/ back_online \/ last_poll
                            THEN "complete" ELSE "poll"
             /\ flash'.offline_detected =
                   (flash.offline_detected \/ cur.kind = "unavailable")]_vars

\* C26 witness: the loop was left before the window ended because the
\* signal, unavailable at an earlier poll, was available again.
C26_Witness ==
    /\ flash.pc = "complete"
    /\ flash.offline_detected
    /\ flash.initial_uptime = Nothing
    /\ flash.cur_state # Nothing /\ Available(flash.cur_state[1])
    /\ flash.elapsed > PollInterval
    /\ flash.elapsed < MaxWait

\* C27: when the uptime sensor shows, at a poll of the postcheck loop, a
\* value lower than the device's uptime before the upload, the monitor
\* stops polling at that poll.
C27_UptimeResetDetected ==
    (/\ flash.monitor_type = "uptime"
     /\ flash.cur_state # Nothing
     /\ flash.cur_state[1].kind = "number"
     /\ flash.cur_state[1].value < flash.uptime_before[1])
        => flash.pc # "poll"

\* The press-time guard check of this step did not pass.
PressBlockedStep ==
    /\ press.pc \in {"idle", "done"}
    /\ press'.guard # Nothing
    /\ press' # press
    /\ press'.gates = press.gates
    /\ ~press'.guard[1].passed

\* C28: whatever makes the press-time guard check not pass (each block
\* reason, and the missing status sensor), the press returns without
\* raising, leaves the lock and the tracker alone, and records
\* last_result 'blocked' with the block reason and a message.
C28_BlockedPressRecorded ==
    [][PressBlockedStep =>
          /\ press'.pc = "done"
          /\ press'.exit = Some("returned")
          /\ press'.attrs # Nothing
          /\ press'.attrs[1].last_result = "blocked"
          /\ press'.attrs[1].block_reason = press'.guard[1].block_reason
          /\ press'.attrs[1].block_reason \in
                {"gates_missing", "invalid_timestamp", "gates_stale",
                 "gates_failed", "gates_warned"}
          /\ press'.attrs[1].error_message \notin {None, ""}
          /\ UNCHANGED <<lock, tracker, events>>]_vars

\* This step is the guard decision of the preflight stage.
PreflightStep == flash.pc = "preflight" /\ flash'.pc # "preflight"

\* C29: the preflight stage lets the attempt proceed exactly when the gate
\* status as it is at that moment passes, whatever the press-time check
\* read, and it decides while the flash operation holds the lock.
C29_GuardsFreshAtPreflight ==
    [][PreflightStep =>
          /\ lock.locked /\ lock.current_operation = "flash_firmware"
          /\ flash'.guard = Some(CheckFlashGuards(press.gates))
          /\ flash'.pc = "mkdtemp" <=> CheckFlashGuards(press.gates).passed
          /\ ~CheckFlashGuards(press.gates).passed =>
                /\ flash'.pc = "outer_except"
                /\ flash'.temp_dir = Nothing]_vars

\* C29 witness: the press-time check passed, the gates went stale before
\* preflight, and the attempt was blocked there.
C29_Witness ==
    /\ press.pc = "running"
    /\ press.guard # Nothing /\ press.guard[1].passed
    /\ flash.guard # Nothing /\ ~flash.guard[1].passed
    /\ flash.guard[1].block_reason = "gates_stale"
    /\ flash.pc = "outer_except"
    /\ "download" \notin StagesFired

\* C30: a missing shared secret (password None) is fatal only when the
\* device requests SHA-256 authentication. With no password and the
\* no-auth answer the engine goes on to send the size; with no password and
\* the SHA-256 request it raises at once; and with no password the device
\* nonce is never read and no client nonce or digest is ever sent.
AuthTypeStep ==
    /\ ota.pc = "recv_auth" /\ ota'.pc # "recv_auth"
    /\ Len(ota'.reads) = Len(ota.reads) + 1

C30_MissingSecret ==
    [][ota'.password = None =>
         /\ \A i \in 1..Len(ota'.reads) : ota'.reads[i].what # "SHA256 nonce"
         /\ \A i \in 1..Len(ota'.sent) : ota'.sent[i].kind \notin {"cnonce", "digest"}
         /\ (ota'.exc = Some(OtaError("no_password")) =>
               /\ Len(ota'.reads) > 0
               /\ ota'.reads[Len(ota'.reads)].what = "auth type"
               /\ ota'.reads[Len(ota'.reads)].data[1] = RESPONSE_REQUEST_SHA256_AUTH)
         /\ (AuthTypeStep =>
               LET auth_type == ota'.reads[Len(ota'.reads)].data[1]
               IN /\ (auth_type = RESPONSE_AUTH_OK =>
                        ota'.pc = "send_size" /\ ota'.exc = Nothing)
                  /\ (auth_type = RESPONSE_REQUEST_SHA256_AUTH =>
                        /\ ota'.pc = "finally"
                        /\ ota'.exc = Some(OtaError("no_password"))
                        /\ ota'.sent = ota.sent))]_vars

\* No password, the device asked for SHA-256, the engine has raised and
\* returned: only the magic and the feature byte were written.
C30_Witness ==
    /\ ota.password = None
    /\ ota.pc = "done"
    /\ ota.exc = Some(OtaError("no_password"))
    /\ Len(ota.sent) = 2
    /\ ota.reads[Len(ota.reads)].data = <<RESPONSE_REQUEST_SHA256_AUTH>>

\* The attempt was blocked by the guard decision of its preflight stage and
\* OperationRunner.run and async_press have finished with it.
PreflightBlockedDone ==
    /\ press.pc = "done"
    /\ press.guard # Nothing /\ press.guard[1].passed
    /\ flash.pc = "done"
    /\ flash.guard # Nothing
    /\ flash.guard[1].raised = Nothing
    /\ ~flash.guard[1].passed

\* The texts an event or a record holds.
FailedStageEvents == SelectSeq(flash.stage_events, LAMBDA e : e.stage = "failed")
StageEventTexts(e) == {e.stage, e.version, e.target_device, e.error}
RunnerFailureTexts ==
    {events[Len(events)].error, tracker.last_error,
     press.attrs[1].error_message, press.attrs[1].block_reason}

\* C31: when the guard decision of the preflight stage is False, the failed
\* stage event and the Runner's result (its error, as the tracker, the
\* completed event and the button attributes hold it) carry the guard's
\* block reason next to the message.
C31_PreflightBlockReasonCarried ==
    PreflightBlockedDone =>
        /\ Len(FailedStageEvents) > 0
        /\ \A i \in 1..Len(FailedStageEvents) :
              flash.guard[1].block_reason \in StageEventTexts(FailedStageEvents[i])
        /\ flash.guard[1].block_reason \in RunnerFailureTexts

\* Every condition of the attempt that the program got to test was met:
\* both guard checks passed, the temporary directory was created, the
\* release on the server is valid and the task was not cancelled.
ConditionsMet ==
    /\ press.guard # Nothing /\ press.guard[1].passed
    /\ flash.guard # Nothing /\ flash.guard[1].passed
    /\ flash.temp_dir # Nothing
    /\ flash.release = PublishedRelease
    /\ flash.exc # Some(CancelledExc)

\* C32: a flash attempt in which every stage's condition is met reaches
\* complete(100%), and the Runner returns success with the tracker in state
\* success.
C32_HappyPathCompletes ==
    (press.pc = "done" /\ flash.pc = "done" /\ ConditionsMet) =>
        /\ flash.exit = Some("returned")
        /\ Len(flash.stage_events) > 0
        /\ flash.stage_events[Len(flash.stage_events)].stage = "complete"
        /\ flash.stage_events[Len(flash.stage_events)].progress = 100
        /\ tracker.state = "success"
        /\ press.attrs # Nothing /\ press.attrs[1].last_result = "success"

\* The gate result is present, its timestamp parses and is within the
\* freshness window, and its overall status is 'warn'.
WarnedFresh(g) ==
    /\ g.sensor
    /\ g.gates_overall = "warn"
    /\ g.gates_last_run = "time"
    /\ g.age <= g.freshness_minutes

\* This step is a press whose press-time check_flash_guards call was made.
PressCheckStep ==
    /\ press.pc \in {"idle", "done"}
    /\ press'.gates = press.gates
    /\ press' # press
    /\ press'.guard # Nothing

\* C33: for gates that are present, fresh and 'warn', check_flash_guards
\* passes when strict_gates_required is False and blocks with gates_warned
\* when it is True.
C33_WarnAllowedUnlessStrict ==
    [][(PressCheckStep /\ WarnedFresh(press.gates)) =>
          IF press.gates.strict_gates
          THEN /\ ~press'.guard[1].passed
               /\ press'.guard[1].block_reason = "gates_warned"
          ELSE /\ press'.guard[1].raised = Nothing
               /\ press'.guard[1].passed]_vars

\* The cases of the gate status, in the order the checks are made.
GatesMissing(g) == ~g.sensor \/ g.gates_overall = None \/ g.gates_last_run = None
TimestampInvalid(g) == ~GatesMissing(g) /\ g.gates_last_run = "unparsable"
GatesStale(g) ==
    ~GatesMissing(g) /\ ~TimestampInvalid(g) /\ g.age > g.freshness_minutes
GatesFailedFresh(g) ==
    /\ ~GatesMissing(g) /\ ~TimestampInvalid(g) /\ ~GatesStale(g)
    /\ g.gates_overall = "fail"

\* C34: check_flash_guards never passes when the gate result or its
\* timestamp is missing, the timestamp cannot be parsed, the age exceeds the
\* window or overall is 'fail', whatever the strict flag; the reasons are
\* gates_missing, invalid_timestamp, gates_stale and gates_failed, in that
\* precedence; and gates that pass with an age equal to the window are fresh.
C34_GuardPrecedence ==
    [][PressCheckStep =>
          LET g == press.gates
              r == press'.guard[1]
          IN /\ (GatesMissing(g) =>
                   ~r.passed /\ r.block_reason = "gates_missing")
             /\ (TimestampInvalid(g) =>
                   ~r.passed /\ r.block_reason = "invalid_timestamp")
             /\ (GatesStale(g) =>
                   ~r.passed /\ r.block_reason = "gates_stale")
             /\ (GatesFailedFresh(g) =>
                   ~r.passed /\ r.block_reason = "gates_failed")
             /\ (/\ ~GatesMissing(g) /\ ~TimestampInvalid(g)
                 /\ g.age = g.freshness_minutes /\ g.gates_overall = "pass")
                   => r.passed]_vars

\* C34 witness: a press with gates that failed and are older than the
\* window, strict flag False, was refused with the earlier reason,
\* gates_stale.
C34_Witness ==
    /\ press.guard # Nothing
    /\ press.guard[1].block_reason = "gates_stale"
    /\ press.gates.gates_overall = "fail"
    /\ press.gates.age > press.gates.freshness_minutes
    /\ ~press.gates.strict_gates
    /\ press.pc = "done"

\* Every chunk of the payload was written and acknowledged.
AllChunksAcked ==
    /\ ota.upload_size > 0
    /\ ota.offset = ota.upload_size
    /\ ota.acks = ota.chunks
    /\ ota.pc \in {"recv_receive_ok", "recv_update_end", "send_final_ok"}

\* C35: for every payload size, a transfer whose chunks were all
\* acknowledged has called the progress callback with 100 as its last value
\* (which the pipeline maps to 80%).
C35_ProgressEndsAt100 ==
    AllChunksAcked =>
        /\ Len(ota.progress) > 0
        /\ ota.progress[Len(ota.progress)] = 100
        /\ UploadFlashPct(ota.progress[Len(ota.progress)]) = 80

\* C36: lock and tracker change together.  In every reachable state the
\* tracker is in state running only while the lock is held by the operation
\* the tracker names, and whenever the lock is free the tracker is idle,
\* success or failed, on every exit path of OperationRunner.run, the
\* cancellation of the operation's task included.
C36_LockTrackerTogether ==
    /\ tracker.state = "running" =>
          lock.locked /\ lock.current_operation = tracker.name
    /\ ~lock.locked => tracker.state \in {"idle", "success", "failed"}

\* C37: a flash attempt that fails makes the transition to failed once:
\* when _execute_flash has left by an exception, exactly one failed stage
\* event was fired.
C37_OneFailedEvent ==
    (flash.pc = "done" /\ flash.exit = Some("raised")) =>
        Len(FailedStageEvents) = 1

\* C38: only a failed completion writes last_error and last_error_time.
\* start_operation, update_progress, reset and a successful completion
\* leave both as they were, so the exported last_error after a failure
\* followed by a success is still the failure's message; a failed
\* completion stores its error and its finish time.
C38_LastErrorFrame ==
    LET before == last_call.tracker_before
        exported == TrackerToDict(tracker, clock)
    IN /\ (\/ last_call.op \in {"start_operation", "update_progress", "reset"}
           \/ last_call.op = "complete_operation" /\ tracker.state = "success")
            => /\ exported.last_error = before.last_error
               /\ exported.last_error_time = before.last_error_time
       /\ (last_call.op = "complete_operation" /\ tracker.state = "failed")
            => /\ exported.last_error = events[Len(events)].error
               /\ exported.last_error_time = tracker.finished

\* C38 witness: an operation failed, time passed, the next completion was
\* a success, and the export still shows the failure and its time.
C38_Witness ==
    /\ last_call.op = "complete_operation"
    /\ tracker.state = "success"
    /\ TrackerToDict(tracker, clock).last_error
          = "OTAError: Network error during OTA upload"
    /\ tracker.last_error_time # Nothing
    /\ tracker.last_error_time[1] < tracker.finished[1]

\* ceil(n / UPLOAD_BLOCK_SIZE)
CeilBlocks(n) == (n + UPLOAD_BLOCK_SIZE - 1) \div UPLOAD_BLOCK_SIZE

RECURSIVE SliceBytes(_)
SliceBytes(sl) ==
    IF sl = <<>> THEN 0 ELSE (Head(sl).to - Head(sl).from) + SliceBytes(Tail(sl))

\* The chunk loop has ended without an error.
ChunkLoopDone ==
    ota.pc \in {"recv_receive_ok", "recv_update_end", "send_final_ok"}

\* The feature byte the device answered.
FeatureAnswer ==
    LET fs == SelectSeq(ota.reads, LAMBDA r : r.what = "features")
    IN IF fs = <<>> THEN Nothing ELSE Some(fs[1].data[1])

\* C39: the payload is the gzip of the file exactly when the device
\* answered supports-compression; its chunks are slices taken in increasing
\* offset order with no gap or overlap, each of 8192 bytes except possibly
\* the last; and when the loop has ended the number of chunks is
\* ceil(size/8192) and the bytes written as chunks are the size announced
\* in the size field.
C39_ChunksCoverPayload ==
    LET sl == ota.slices
    IN /\ FeatureAnswer # Nothing =>
            /\ ota.use_compression <=>
                  FeatureAnswer[1] = RESPONSE_SUPPORTS_COMPRESSION
            /\ ~ota.use_compression => ota.upload_size = ota.file_size
       /\ ota.announced # Nothing => ota.announced[1] = ota.upload_size
       /\ \A i \in 1..Len(sl) :
            /\ sl[i].from = IF i = 1 THEN 0 ELSE sl[i - 1].to
            /\ sl[i].from < sl[i].to
            /\ sl[i].to <= ota.upload_size
            /\ \/ sl[i].to - sl[i].from = UPLOAD_BLOCK_SIZE
               \/ i = Len(sl) /\ sl[i].to = ota.upload_size
       /\ Len(sl) = SentCount("chunk", Len(ota.sent))
       /\ ChunkLoopDone =>
            /\ Len(sl) = CeilBlocks(ota.upload_size)
            /\ SliceBytes(sl) = ota.announced[1]

\* C39 witness: a compressed payload that is not a multiple of the block
\* size and shorter than the file was sent whole, in more than one chunk.
C39_Witness ==
    /\ ChunkLoopDone
    /\ ota.use_compression
    /\ ota.upload_size < ota.file_size
    /\ Len(ota.slices) > 1
    /\ ota.upload_size % UPLOAD_BLOCK_SIZE # 0

\* C40: reloading the integration while an operation is running does not
\* let a second operation start.  At most one operation is inside
\* OperationRunner.run, before and after any reload, and while one is, no
\* press starts another: a press that is handled is refused as busy.
C40_SingleFlightAcrossReload ==
    [][/\ Cardinality(entry'.ops) <= 1
       /\ entry.ops # {} =>
             /\ entry'.ops \subseteq entry.ops
             /\ entry'.last_press \notin {entry.last_press, None} =>
                   entry'.last_press = "busy"]_vars

\* C40 witness: the entry was set up again while an operation of the first
\* setup's runner was running; the new lock is free, the operation still
\* runs and a press after the reload was refused as busy.
C40_Witness ==
    /\ entry.setups > 1
    /\ entry.ops # {}
    /\ \A op \in entry.ops : op.runner = 1
    /\ ~entry.locks[entry.setups].locked
    /\ entry.trackers[entry.setups].state = "idle"
    /\ entry.last_press = "busy"

====
